---- MODULE Spec2Model ----
(***************************************************************************)
(* Model of scale_s3_benchmark: the upload pipeline (main.go, the          *)
(* s3upload.Uploader, monitor.UpdateStats) and the phased benchmark        *)
(* engine (benchmark.PerformBenchmarkOperations / performOperation).       *)
(* Every goroutine is a process with a program counter; every action is    *)
(* one step between two synchronisation points of the Go code.             *)
(***************************************************************************)
EXTENDS Integers, Sequences, FiniteSets, Bags, TLC

(* ------------------------------ bounds --------------------------------- *)
\* largest totalFiles / maxFilesPerFolder of a modelled configuration
MaxTotalFiles == 2
\* largest maxRetries of a modelled configuration (0 is modelled too)
MaxRetriesCfg == 3
\* largest maxConcurrentUploads / maxConcurrentSubfolders
MaxWorkers == 2
\* largest number of local working files
MaxLocal == 1
\* timestamps a batch can read when it builds its subfolder name
MaxStamp == 0
\* largest number of upload attempts of a run (totalFiles * maxRetries)
MaxAttempts == 4
\* largest maxBenchmarkThreads
MaxThreads == 2
\* most operations the benchmark loops admit in one run
MaxOps == 3
\* largest maxBenchmarkThreads * (operations admitted) of a benchmark run
MaxBenchWork == 6
\* largest duration of one benchmark operation, in clock ticks
MaxDur == 1
\* largest number of endpoint clients
MaxClients == 2
\* largest number of upload attempts of a run that goes on to the benchmark
MaxRunAttempts == 2
\* largest maxLocalFiles of a run that is followed from the start of main()
MaxJobs == 2
\* largest maxConcurrentReplicas
MaxReplicas == 2
\* most jobs still to be processed when the replication is followed from a
\* state in which the jobs before them have failed
MaxLeft == 2

(* ------------------------- program constants --------------------------- *)
\* most calls of monitor.UpdateStats followed statement by statement
MaxCalls == 2

\* capacity of the jobs channel of the replication workers
JobsChanCap == 1000
\* capacity of errorChan
ErrorChanCap == 1000

VARIABLES
    cfg,                 \* config.Config, the fields the pipeline reads, and
                         \* benchmarkOps: the operations that fit into the
                         \* phases' BenchmarkDurationSeconds
    localFiles,          \* main's localFiles: sequence of local file names
    mainPc,              \* position of main()
    folderIndex,         \* main's loop variable
    totalFilesUploaded,  \* main's counter of files handed to batches
    batches,             \* the batch goroutines of main's loop, by folderIndex+1
    SuccessCount,        \* Uploader.SuccessCount
    ClientIndex,         \* Uploader.ClientIndex
    UploadedS3Files,     \* Uploader.UploadedS3Files, the registry
    stats,               \* monitor.stats
    benchPc,             \* position of PerformBenchmarkOperations
    ctxDone,             \* per phase: the phase's context deadline has fired
    loops,               \* per operation kind: the performOperation loop and its tasks
    metrics,             \* per operation kind: its PerformanceMetrics
    exitStatus,          \* exit status of the process, -1 while it runs
    repl,                \* ReplicateFilesWithReflinkInParallel: its locals, its
                         \* goroutines and what became of every job
    deleted,             \* the keys a DeleteObject call has removed from the bucket
    report,              \* what GenerateFinalReport has printed
    removed,             \* the positions of localFiles whose file cleanupLocalFiles
                         \* has removed from disk
    mon                  \* package monitor seen statement by statement: the holder
                         \* of statsLock, the UpdateStats calls and the last copy
                         \* GetStats or ToJSON returned

uploadVars == <<cfg, localFiles, mainPc, folderIndex, totalFilesUploaded,
                batches, SuccessCount, ClientIndex, UploadedS3Files, stats>>

benchVars == <<benchPc, ctxDone, loops, metrics>>

startVars == <<exitStatus, repl>>

vars == <<uploadVars, benchVars, startVars, deleted, report, removed, mon>>

(* ------------------------------ helpers -------------------------------- *)
Min(a, b) == IF a < b THEN a ELSE b

RECURSIVE Pow2(_)
Pow2(n) == IF n <= 0 THEN 1 ELSE 2 * Pow2(n - 1)

\* faulty variant: the exponent is off by one
BackoffOffByOne(attempt) == Pow2(attempt - 1)

\* backoffDuration, in seconds
Backoff(attempt) == Pow2(attempt)

\* filepath.Join(S3Folder, subfolderName, filepath.Base(filePath))
S3Key(subfolderName, filePath) == <<subfolderName, filePath>>

\* fmt.Sprintf("FOLDER_%s_%s_%d", dateTimeStr, folderFilesCount, folderIndex)
SubfolderName(stamp, filesToProcess, folderIdx) == <<stamp, filesToProcess, folderIdx>>

\* faulty variant: every call uses the first client
S3ClientFirst(clientIndex) == 0

\* u.S3Clients[clientIndex % uint64(len(u.S3Clients))], as a position in
\* u.S3Clients counted from 0
S3ClientFor(clientIndex) == clientIndex % cfg.numClients

\* filePaths[i] = localFiles[i % len(localFiles)], i counted from 0
FilePathAt(i) == localFiles[(i % Len(localFiles)) + 1]

\* a file goroutine of UploadFiles: its position, its file path, the loop
\* variable attempt, and what the call has done so far (uploadFile calls,
\* the S3 client each of them selected, the call that succeeded, backoff
\* sleeps, outcome, records made)
NewFile(fp) ==
    [pc |-> "sem", fp |-> fp, attempt |-> 0, attempts |-> 0, clients |-> <<>>,
     okAt |-> 0, sleeps |-> <<>>, result |-> "none", recS |-> 0, recF |-> 0,
     app |-> 0]

\* monitor.UpdateStats
UpdateStats(s, success) ==
    [TotalUploads |-> s.TotalUploads + 1,
     Successes    |-> IF success THEN s.Successes + 1 ELSE s.Successes,
     Failures     |-> IF success THEN s.Failures ELSE s.Failures + 1]

Kinds == {"GET", "STAT", "DELETE"}

\* ReplicateFilesWithReflinkInParallel before it is called: no job sent or
\* received, no worker, nothing replicated, no error collected
IdleRepl ==
    [sent |-> 0, closed |-> FALSE, received |-> 0, workers |-> <<>>,
     replicatedFiles |-> <<>>, errorChan |-> 0, jobs |-> <<>>]

\* nothing printed yet
NoReport ==
    [blocks |-> <<>>, totalOperations |-> 0, totalErrors |-> 0]

BatchIds == 1..Len(batches)
FileIds(b) == 1..Len(batches[b].files)

\* the file goroutines of batch b that hold a slot of its semaphore
HoldingUploadSlot(b) ==
    {i \in FileIds(b) : batches[b].files[i].pc \notin {"sem", "done"}}

\* the batch goroutines that hold a slot of subfolderSemaphore
HoldingSubfolderSlot ==
    {b \in BatchIds : batches[b].pc \in {"process", "uploading", "release"}}

SetFile(b, i, f) == [batches EXCEPT ![b].files[i] = f]

(* ------------------------------ Init ----------------------------------- *)
\* the configurations of the upload stage; the run makes at most
\* totalFiles * maxRetries upload attempts. A batch never holds more than
\* Min(maxFilesPerFolder, totalFiles) files, so a semaphore with more slots
\* than that behaves as one with exactly that many
UploadConfigs ==
    {c \in [totalFiles : 1..MaxTotalFiles,
            maxFilesPerFolder : 1..MaxTotalFiles,
            maxConcurrentUploads : 1..MaxWorkers,
            maxConcurrentSubfolders : 1..MaxWorkers,
            maxRetries : 0..MaxRetriesCfg,
            maxLocalFiles : 1..MaxLocal,
            numClients : {1},
            maxBenchmarkThreads : {1},
            benchmarkOps : {1}] :
        /\ c.totalFiles * c.maxRetries <= MaxAttempts
        /\ c.maxConcurrentUploads <= Min(c.maxFilesPerFolder, c.totalFiles)}

\* the configurations with several endpoint clients: one batch that holds
\* every file, up to maxConcurrentUploads of them uploading at once
ClientConfigs ==
    {c \in [totalFiles : 1..MaxTotalFiles,
            maxFilesPerFolder : 1..MaxTotalFiles,
            maxConcurrentUploads : 1..MaxWorkers,
            maxConcurrentSubfolders : {1},
            maxRetries : 0..MaxRetriesCfg,
            maxLocalFiles : {1},
            numClients : 1..MaxClients,
            maxBenchmarkThreads : {1},
            benchmarkOps : {1}] :
        /\ c.totalFiles * c.maxRetries <= MaxAttempts
        /\ c.maxFilesPerFolder = c.totalFiles}

\* package monitor with no call of it under way
IdleMon ==
    [lock |-> 0, calls |-> <<>>,
     copy |-> [TotalUploads |-> 0, Successes |-> 0, Failures |-> 0],
     copied |-> 0]

\* nothing is uploaded, measured, deleted or printed yet and the process runs
NothingRun ==
    /\ folderIndex = 0
    /\ totalFilesUploaded = 0
    /\ batches = <<>>
    /\ SuccessCount = 0
    /\ ClientIndex = 0
    /\ UploadedS3Files = <<>>
    /\ stats = [TotalUploads |-> 0, Successes |-> 0, Failures |-> 0]
    /\ benchPc = "idle"
    /\ ctxDone = [p \in {"read", "delete"} |-> FALSE]
    /\ loops = [k \in {"GET", "STAT", "DELETE"} |->
                 [pc |-> "idle", admitted |-> 0, spawned |-> 0, op |-> 0, rel |-> 0,
                  lateAdmits |-> 0, errs |-> 0, durSum |-> 0, seen |-> {},
                  sel |-> EmptyBag, clients |-> {}, goneErrs |-> 0]]
    /\ metrics = [k \in {"GET", "STAT", "DELETE"} |->
                 [TotalOperations |-> 0, TotalTime |-> 0, MinTime |-> 0,
                  MaxTime |-> 0, ErrorCount |-> 0]]
    /\ exitStatus = -1
    /\ deleted = {}
    /\ report = NoReport
    /\ removed = {}
    /\ mon = IdleMon

\* the state in which main() is entered
NothingDone == NothingRun /\ repl = IdleRepl

\* the state of main() when the Uploader has been created: replication has
\* produced the maxLocalFiles local files, nothing is uploaded yet
UploaderCreated ==
    /\ localFiles = [i \in 1..cfg.maxLocalFiles |-> i - 1]
    /\ mainPc = "loop"
    /\ NothingDone

InitUpload == cfg \in UploadConfigs /\ UploaderCreated

InitClients == cfg \in ClientConfigs /\ UploaderCreated

(* ----------------------------- startup --------------------------------- *)
\* the contents of config.json a run is followed with from the start of
\* main(): one file to upload, concurrency settings that are zero or one, up
\* to two upload attempts, and numClients, the endpoints for which
\* InitializeS3Clients gets a session
StartConfigs ==
    [totalFiles : {1}, maxFilesPerFolder : {1},
     maxConcurrentUploads : {0, 1}, maxConcurrentSubfolders : {0, 1},
     maxRetries : {0, 1, 2}, maxLocalFiles : 1..MaxJobs, numClients : {0, 1},
     maxBenchmarkThreads : {0, 1}, benchmarkOps : {1},
     maxConcurrentReplicas : 0..MaxReplicas]

\* main() is entered
InitStart ==
    /\ cfg \in StartConfigs
    /\ localFiles = <<>>
    /\ mainPc = "start"
    /\ NothingDone

\* config.LoadConfig: the file cannot be opened, read or decoded, or
\* maxConcurrentReplicas is not positive: main prints the error and calls
\* os.Exit(1)
MainLoadConfig ==
    /\ mainPc = "start"
    /\ \E decoded \in BOOLEAN :
         IF ~decoded \/ cfg.maxConcurrentReplicas <= 0
         THEN mainPc' = "configError" /\ exitStatus' = 1
         ELSE mainPc' = "prepare" /\ exitStatus' = exitStatus
    /\ UNCHANGED benchVars
    /\ UNCHANGED <<cfg, localFiles, folderIndex, totalFilesUploaded, batches,
                   SuccessCount, ClientIndex, UploadedS3Files, stats>>
    /\ UNCHANGED <<repl, deleted, report, removed, mon>>

\* increaseFileDescriptorLimit and PrepareBaseDirectory (main returns when
\* one of them fails), GenerateAllBaseFiles, then
\* ReplicateFilesWithReflinkInParallel is entered: it starts
\* maxConcurrentReplicas workers and the goroutine that sends the jobs
MainPrepare ==
    /\ mainPc = "prepare"
    /\ \E ok \in BOOLEAN :
         IF ok
         THEN /\ mainPc' = "replicate"
              /\ exitStatus' = exitStatus
              /\ repl' = [IdleRepl EXCEPT
                    !.workers = [w \in 1..cfg.maxConcurrentReplicas |->
                                   [pc |-> "recv", currentCount |-> 0]],
                    !.jobs = [j \in 1..cfg.maxLocalFiles |->
                                [by |-> 0, clone |-> "none", fallback |-> "none",
                                 out |-> "none"]]]
         ELSE /\ mainPc' = "prepareError"
              /\ exitStatus' = 0
              /\ repl' = repl
    /\ UNCHANGED benchVars
    /\ UNCHANGED <<cfg, localFiles, folderIndex, totalFilesUploaded, batches,
                   SuccessCount, ClientIndex, UploadedS3Files, stats>>
    /\ UNCHANGED <<deleted, report, removed, mon>>

\* what a step of the replication leaves alone
ReplFrame ==
    /\ UNCHANGED benchVars
    /\ UNCHANGED <<cfg, localFiles, mainPc, folderIndex, totalFilesUploaded, batches,
                   SuccessCount, ClientIndex, UploadedS3Files, stats>>
    /\ UNCHANGED <<exitStatus, deleted, report, removed, mon>>

Workers == 1..Len(repl.workers)

\* jobs <- currentCount, for currentCount = 0 .. maxLocalFiles-1
SenderSends ==
    /\ mainPc = "replicate"
    /\ ~repl.closed
    /\ repl.sent < cfg.maxLocalFiles
    /\ repl.sent - repl.received < JobsChanCap
    /\ repl' = [repl EXCEPT !.sent = @ + 1]
    /\ ReplFrame

\* the sender's loop ends and the deferred close(jobs) runs
SenderCloses ==
    /\ mainPc = "replicate"
    /\ ~repl.closed
    /\ repl.sent >= cfg.maxLocalFiles
    /\ repl' = [repl EXCEPT !.closed = TRUE]
    /\ ReplFrame

\* for currentCount := range jobs: the worker receives the oldest job
WorkerReceives(w) ==
    /\ mainPc = "replicate"
    /\ repl.workers[w].pc = "recv"
    /\ repl.received < repl.sent
    /\ LET currentCount == repl.received IN
       repl' = [repl EXCEPT
          !.received = @ + 1,
          !.workers[w] = [pc |-> "copy", currentCount |-> currentCount],
          !.jobs[currentCount + 1].by = @ + 1]
    /\ ReplFrame

\* range jobs ends: the channel is closed and empty, wg.Done() runs
WorkerExits(w) ==
    /\ mainPc = "replicate"
    /\ repl.workers[w].pc = "recv"
    /\ repl.closed
    /\ repl.received = repl.sent
    /\ repl' = [repl EXCEPT !.workers[w].pc = "done"]
    /\ ReplFrame

\* the error CopyFileReflink returns: "cp command timed out" when the 30
\* second deadline of the cp --reflink=always command was exceeded;
\* otherwise, when cp failed, the error of FallbackCopy; otherwise nil
CopyError(clone, fallbackCopied) ==
    IF clone = "timeout" THEN TRUE
    ELSE IF clone = "failed" THEN ~fallbackCopied
    ELSE FALSE

\* CopyFileReflink(src, dst) has returned: on an error the worker prints it
\* and is about to send it to errorChan
WorkerCopies(w) ==
    /\ mainPc = "replicate"
    /\ repl.workers[w].pc = "copy"
    /\ \E clone \in {"ok", "failed", "timeout"}, fallbackCopied \in BOOLEAN :
         LET j == repl.workers[w].currentCount + 1
             err == CopyError(clone, fallbackCopied)
             fallback == IF clone # "failed" THEN "none"
                         ELSE IF fallbackCopied THEN "ok" ELSE "failed"
         IN repl' = [repl EXCEPT
                  !.workers[w].pc = IF err THEN "report" ELSE "append",
                  !.jobs[j].clone = clone,
                  !.jobs[j].fallback = fallback,
                  !.jobs[j].out = IF err THEN "err" ELSE "ok"]
    /\ ReplFrame

\* errorChan <- err; continue: the send waits for room in the channel, from
\* which nothing is received while the workers run
WorkerReports(w) ==
    /\ mainPc = "replicate"
    /\ repl.workers[w].pc = "report"
    /\ repl.errorChan < ErrorChanCap
    /\ repl' = [repl EXCEPT
          !.workers[w].pc = "recv",
          !.errorChan = @ + 1]
    /\ ReplFrame

\* mu.Lock(); replicatedFiles = append(replicatedFiles, dst); mu.Unlock()
WorkerAppends(w) ==
    /\ mainPc = "replicate"
    /\ repl.workers[w].pc = "append"
    /\ repl' = [repl EXCEPT
          !.replicatedFiles = Append(@, repl.workers[w].currentCount),
          !.workers[w].pc = "recv"]
    /\ ReplFrame

\* faulty variant: the function returns an error when a job has failed, and
\* main returns on it
ReplicationReturnsError ==
    /\ mainPc = "replicate"
    /\ \A w \in Workers : repl.workers[w].pc = "done"
    /\ IF repl.errorChan > 0
       THEN mainPc' = "replicationError" /\ exitStatus' = 0 /\ localFiles' = localFiles
       ELSE mainPc' = "clients" /\ exitStatus' = exitStatus
            /\ localFiles' = repl.replicatedFiles
    /\ UNCHANGED benchVars
    /\ UNCHANGED <<cfg, folderIndex, totalFilesUploaded, batches,
                   SuccessCount, ClientIndex, UploadedS3Files, stats>>
    /\ UNCHANGED <<repl, deleted, report, removed, mon>>

\* replicationWG.Wait() returns, the errors are counted and
\* replicatedFiles, nil is returned: main assigns localFiles and goes on
ReplicationReturns ==
    /\ mainPc = "replicate"
    /\ \A w \in Workers : repl.workers[w].pc = "done"
    /\ mainPc' = "clients"
    /\ exitStatus' = exitStatus
    /\ localFiles' = repl.replicatedFiles
    /\ UNCHANGED benchVars
    /\ UNCHANGED <<cfg, folderIndex, totalFilesUploaded, batches,
                   SuccessCount, ClientIndex, UploadedS3Files, stats>>
    /\ UNCHANGED <<repl, deleted, report, removed, mon>>

\* InitializeS3Clients: no client was created: main prints the error and
\* returns; otherwise the Uploader is created. The locals of the
\* replication are gone.
MainInitClients ==
    /\ mainPc = "clients"
    /\ IF cfg.numClients = 0
       THEN mainPc' = "clientError" /\ exitStatus' = 0
       ELSE mainPc' = "loop" /\ exitStatus' = exitStatus
    /\ repl' = IdleRepl
    /\ UNCHANGED benchVars
    /\ UNCHANGED <<cfg, localFiles, folderIndex, totalFilesUploaded, batches,
                   SuccessCount, ClientIndex, UploadedS3Files, stats>>
    /\ UNCHANGED <<deleted, report, removed, mon>>

(* ------------------------------ main ----------------------------------- *)
\* faulty variant: the last batch is not cut down to the files that remain
MainLaunchBatchNoClip ==
    /\ mainPc = "loop"
    /\ totalFilesUploaded < cfg.totalFiles
    /\ LET filesToProcess == cfg.maxFilesPerFolder
       IN /\ batches' = Append(batches,
                 [pc |-> "acquire", folderIdx |-> folderIndex,
                  filesCount |-> filesToProcess, name |-> <<>>, files |-> <<>>,
                  freedBy |-> 0])
          /\ totalFilesUploaded' = totalFilesUploaded + filesToProcess
    /\ folderIndex' = folderIndex + 1
    /\ UNCHANGED benchVars
    /\ UNCHANGED <<startVars, deleted, report, removed, mon>>
    /\ UNCHANGED <<cfg, localFiles, mainPc, SuccessCount, ClientIndex,
                   UploadedS3Files, stats>>

\* one iteration of main's for loop: compute filesToProcess, spawn the batch
MainLaunchBatch ==
    /\ mainPc = "loop"
    /\ totalFilesUploaded < cfg.totalFiles
    /\ LET filesToProcess ==
               Min(cfg.maxFilesPerFolder, cfg.totalFiles - totalFilesUploaded)
       IN /\ batches' = Append(batches,
                 [pc |-> "acquire", folderIdx |-> folderIndex,
                  filesCount |-> filesToProcess, name |-> <<>>, files |-> <<>>,
                  freedBy |-> 0])
          /\ totalFilesUploaded' = totalFilesUploaded + filesToProcess
    /\ folderIndex' = folderIndex + 1
    /\ UNCHANGED benchVars
    /\ UNCHANGED <<startVars, deleted, report, removed, mon>>
    /\ UNCHANGED <<cfg, localFiles, mainPc, SuccessCount, ClientIndex,
                   UploadedS3Files, stats>>

\* the loop condition fails: main goes to wg.Wait()
MainLoopExit ==
    /\ mainPc = "loop"
    /\ totalFilesUploaded >= cfg.totalFiles
    /\ mainPc' = "wait"
    /\ UNCHANGED benchVars
    /\ UNCHANGED <<startVars, deleted, report, removed, mon>>
    /\ UNCHANGED <<cfg, localFiles, folderIndex, totalFilesUploaded, batches,
                   SuccessCount, ClientIndex, UploadedS3Files, stats>>

\* faulty variant: main does not wait for the batches' trailing pauses
MainWaitReturnsEarly ==
    /\ mainPc = "wait"
    /\ \A b \in BatchIds : batches[b].pc \in {"pause", "done"}
    /\ mainPc' = "uploaded"
    /\ UNCHANGED benchVars
    /\ UNCHANGED <<startVars, deleted, report, removed, mon>>
    /\ UNCHANGED <<cfg, localFiles, folderIndex, totalFilesUploaded, batches,
                   SuccessCount, ClientIndex, UploadedS3Files, stats>>

\* wg.Wait() returns when every batch goroutine has called wg.Done
MainWaitReturns ==
    /\ mainPc = "wait"
    /\ \A b \in BatchIds : batches[b].pc = "done"
    /\ mainPc' = "uploaded"
    /\ UNCHANGED benchVars
    /\ UNCHANGED <<startVars, deleted, report, removed, mon>>
    /\ UNCHANGED <<cfg, localFiles, folderIndex, totalFilesUploaded, batches,
                   SuccessCount, ClientIndex, UploadedS3Files, stats>>

\* faulty variant: cleanupLocalFiles is called before wg.Wait() has returned
MainCleanupBeforeWait ==
    /\ mainPc \in {"wait", "uploaded"}
    /\ Cardinality(removed) < Len(localFiles)
    /\ LET n == Cardinality(removed) + 1 IN
         /\ removed' = removed \cup {n}
         /\ mainPc' = IF n = Len(localFiles) /\ mainPc = "uploaded"
                       THEN "bench" ELSE mainPc
    /\ UNCHANGED benchVars
    /\ UNCHANGED <<startVars, deleted, report, mon>>
    /\ UNCHANGED <<cfg, localFiles, folderIndex, totalFilesUploaded, batches,
                   SuccessCount, ClientIndex, UploadedS3Files, stats>>

\* one iteration of cleanupLocalFiles' loop: os.Remove of the next local
\* file (its error is dropped); after the last one main calls
\* PerformBenchmarkOperations with the registry
MainCleanup ==
    /\ mainPc = "uploaded"
    /\ Cardinality(removed) < Len(localFiles)
    /\ LET n == Cardinality(removed) + 1 IN
         /\ removed' = removed \cup {n}
         /\ mainPc' = IF n = Len(localFiles) THEN "bench" ELSE "uploaded"
    /\ UNCHANGED benchVars
    /\ UNCHANGED <<startVars, deleted, report, mon>>
    /\ UNCHANGED <<cfg, localFiles, folderIndex, totalFilesUploaded, batches,
                   SuccessCount, ClientIndex, UploadedS3Files, stats>>

\* faulty variant: the average is rounded up
ReportBlockRoundsUp(m) ==
    [TotalOperations |-> m.TotalOperations,
     Successes |-> m.TotalOperations - m.ErrorCount,
     Errors    |-> m.ErrorCount,
     MinTime   |-> m.MinTime,
     MaxTime   |-> m.MaxTime,
     AvgTime   |-> IF m.TotalOperations > 0
                   THEN (m.TotalTime + m.TotalOperations - 1) \div m.TotalOperations
                   ELSE 0]

\* the lines GenerateFinalReport prints for one operation kind; avgTime is
\* the zero Duration unless TotalOperations > 0
ReportBlock(m) ==
    [TotalOperations |-> m.TotalOperations,
     Successes |-> m.TotalOperations - m.ErrorCount,
     Errors    |-> m.ErrorCount,
     MinTime   |-> m.MinTime,
     MaxTime   |-> m.MaxTime,
     AvgTime   |-> IF m.TotalOperations > 0
                   THEN m.TotalTime \div m.TotalOperations
                   ELSE 0]

\* the orders in which range result.Metrics can visit the map's three kinds
KindOrders ==
    {o \in [1..3 -> Kinds] : \A k \in Kinds : \E i \in 1..3 : o[i] = k}

\* the loop of GenerateFinalReport over the kinds in the order given: one
\* block per kind, totalOperations and totalErrors accumulated
RECURSIVE FinalReport(_, _, _)
FinalReport(order, result, acc) ==
    IF order = <<>> THEN acc
    ELSE LET opType == Head(order)
             m == result[opType]
         IN FinalReport(Tail(order), result,
              [blocks |-> acc.blocks @@ (opType :> ReportBlock(m)),
               totalOperations |-> acc.totalOperations + m.TotalOperations,
               totalErrors |-> acc.totalErrors + m.ErrorCount])

\* PerformBenchmarkOperations has returned: GenerateFinalReport
MainReport ==
    /\ mainPc = "bench"
    /\ benchPc = "done"
    /\ mainPc' = "report"
    /\ \E order \in KindOrders : report' = FinalReport(order, metrics, NoReport)
    /\ UNCHANGED benchVars
    /\ UNCHANGED <<startVars, deleted, removed, mon>>
    /\ UNCHANGED <<cfg, localFiles, folderIndex, totalFilesUploaded, batches,
                   SuccessCount, ClientIndex, UploadedS3Files, stats>>

\* main returns: the process exits with status 0
MainReturns ==
    /\ mainPc = "report"
    /\ mainPc' = "returned"
    /\ exitStatus' = 0
    /\ UNCHANGED benchVars
    /\ UNCHANGED <<cfg, localFiles, folderIndex, totalFilesUploaded, batches,
                   SuccessCount, ClientIndex, UploadedS3Files, stats>>
    /\ UNCHANGED <<repl, deleted, report, removed, mon>>

(* ------------------------- batch goroutine ----------------------------- *)
\* faulty variant: the batch goroutine does not wait for a free slot
BatchAcquireNoSem(b) ==
    /\ batches[b].pc = "acquire"
    /\ batches' = [batches EXCEPT ![b].pc = "process"]
    /\ UNCHANGED benchVars
    /\ UNCHANGED <<startVars, deleted, report, removed, mon>>
    /\ UNCHANGED <<cfg, localFiles, mainPc, folderIndex, totalFilesUploaded,
                   SuccessCount, ClientIndex, UploadedS3Files, stats>>

\* subfolderSemaphore <- struct{}{}
BatchAcquire(b) ==
    /\ batches[b].pc = "acquire"
    /\ Cardinality(HoldingSubfolderSlot) < cfg.maxConcurrentSubfolders
    /\ batches' = [batches EXCEPT ![b].pc = "process"]
    /\ UNCHANGED benchVars
    /\ UNCHANGED <<startVars, deleted, report, removed, mon>>
    /\ UNCHANGED <<cfg, localFiles, mainPc, folderIndex, totalFilesUploaded,
                   SuccessCount, ClientIndex, UploadedS3Files, stats>>

\* processSubfolder up to the point where UploadFiles has spawned one
\* goroutine per file path and waits on its WaitGroup. With no local file,
\* localFiles[i % len(localFiles)] divides by zero: the goroutine panics and
\* the process, every goroutine with it, ends with status 2.
ProcessSubfolder(b) ==
    /\ batches[b].pc = "process"
    /\ IF Len(localFiles) = 0 /\ batches[b].filesCount > 0
       THEN /\ batches' = [c \in BatchIds |-> [batches[c] EXCEPT !.pc = "killed"]]
            /\ mainPc' = "crashed"
            /\ exitStatus' = 2
       ELSE /\ \E stamp \in 0..MaxStamp :
                 batches' = [batches EXCEPT
                    ![b].pc = "uploading",
                    ![b].freedBy = 0,
                    ![b].name = SubfolderName(stamp, batches[b].filesCount, batches[b].folderIdx),
                    ![b].files = [i \in 1..batches[b].filesCount |-> NewFile(FilePathAt(i - 1))]]
            /\ UNCHANGED <<mainPc, exitStatus>>
    /\ UNCHANGED benchVars
    /\ UNCHANGED <<cfg, localFiles, folderIndex, totalFilesUploaded,
                   SuccessCount, ClientIndex, UploadedS3Files, stats>>
    /\ UNCHANGED <<repl, deleted, report, removed, mon>>

\* UploadFiles' wg.Wait() returns, processSubfolder returns
UploadFilesReturns(b) ==
    /\ batches[b].pc = "uploading"
    /\ \A i \in FileIds(b) : batches[b].files[i].pc = "done"
    /\ batches' = [batches EXCEPT ![b].pc = "release"]
    /\ UNCHANGED benchVars
    /\ UNCHANGED <<startVars, deleted, report, removed, mon>>
    /\ UNCHANGED <<cfg, localFiles, mainPc, folderIndex, totalFilesUploaded,
                   SuccessCount, ClientIndex, UploadedS3Files, stats>>

\* <-subfolderSemaphore, then the goroutine sleeps PauseDurationSeconds.
\* A batch blocked on the full semaphore notes whose receive made room
\* (freedBy), until that batch's pause ends or it spawns its own uploads.
BatchRelease(b) ==
    /\ batches[b].pc = "release"
    /\ batches' = [c \in BatchIds |->
          IF c = b THEN [batches[c] EXCEPT !.pc = "pause"]
          ELSE IF /\ batches[c].pc = "acquire"
                  /\ Cardinality(HoldingSubfolderSlot) = cfg.maxConcurrentSubfolders
               THEN [batches[c] EXCEPT !.freedBy = b]
               ELSE batches[c]]
    /\ UNCHANGED benchVars
    /\ UNCHANGED <<startVars, deleted, report, removed, mon>>
    /\ UNCHANGED <<cfg, localFiles, mainPc, folderIndex, totalFilesUploaded,
                   SuccessCount, ClientIndex, UploadedS3Files, stats>>

\* time.Sleep returns, the deferred wg.Done() runs
BatchPauseEnds(b) ==
    /\ batches[b].pc = "pause"
    /\ batches' = [c \in BatchIds |->
          IF c = b THEN [batches[c] EXCEPT !.pc = "done"]
          ELSE IF batches[c].freedBy = b THEN [batches[c] EXCEPT !.freedBy = 0]
               ELSE batches[c]]
    /\ UNCHANGED benchVars
    /\ UNCHANGED <<startVars, deleted, report, removed, mon>>
    /\ UNCHANGED <<cfg, localFiles, mainPc, folderIndex, totalFilesUploaded,
                   SuccessCount, ClientIndex, UploadedS3Files, stats>>

(* -------------------- file goroutine of UploadFiles -------------------- *)
\* faulty variant: the file goroutine does not wait for a free slot
FileAcquireNoSem(b, i) ==
    /\ batches[b].pc = "uploading"
    /\ batches[b].files[i].pc = "sem"
    /\ batches' = SetFile(b, i, [batches[b].files[i] EXCEPT !.pc = "loop", !.attempt = 1])
    /\ UNCHANGED benchVars
    /\ UNCHANGED <<startVars, deleted, report, removed, mon>>
    /\ UNCHANGED <<cfg, localFiles, mainPc, folderIndex, totalFilesUploaded,
                   SuccessCount, ClientIndex, UploadedS3Files, stats>>

\* semaphore <- struct{}{} ; UploadFileWithRetry is entered, attempt := 1
FileAcquire(b, i) ==
    /\ batches[b].pc = "uploading"
    /\ batches[b].files[i].pc = "sem"
    /\ Cardinality(HoldingUploadSlot(b)) < cfg.maxConcurrentUploads
    /\ batches' = SetFile(b, i, [batches[b].files[i] EXCEPT !.pc = "loop", !.attempt = 1])
    /\ UNCHANGED benchVars
    /\ UNCHANGED <<startVars, deleted, report, removed, mon>>
    /\ UNCHANGED <<cfg, localFiles, mainPc, folderIndex, totalFilesUploaded,
                   SuccessCount, ClientIndex, UploadedS3Files, stats>>

\* faulty variant: the client is selected once per file: a retry reuses the
\* client of the file's first attempt and leaves the counter alone
StartAttemptPerFile(b, i) ==
    LET f == batches[b].files[i] IN
    /\ batches[b].pc = "uploading"
    /\ f.pc = "loop"
    /\ f.attempt <= cfg.maxRetries
    /\ ClientIndex' = IF f.attempts = 0 THEN ClientIndex + 1 ELSE ClientIndex
    /\ batches' = SetFile(b, i, [f EXCEPT !.pc = "put", !.attempts = @ + 1,
                                          !.clients = Append(@,
                                              IF f.attempts = 0 THEN S3ClientFor(ClientIndex')
                                              ELSE f.clients[1])])
    /\ UNCHANGED benchVars
    /\ UNCHANGED <<startVars, deleted, report, removed, mon>>
    /\ UNCHANGED <<cfg, localFiles, mainPc, folderIndex, totalFilesUploaded,
                   SuccessCount, UploadedS3Files, stats>>

\* attempt <= MaxRetries: uploadFile is called, takes the next client index,
\* selects its S3 client and sends the PUT
StartAttempt(b, i) ==
    LET f == batches[b].files[i] IN
    /\ batches[b].pc = "uploading"
    /\ f.pc = "loop"
    /\ f.attempt <= cfg.maxRetries
    /\ ClientIndex' = ClientIndex + 1
    /\ batches' = SetFile(b, i, [f EXCEPT !.pc = "put", !.attempts = @ + 1,
                                          !.clients = Append(@, S3ClientFor(ClientIndex'))])
    /\ UNCHANGED benchVars
    /\ UNCHANGED <<startVars, deleted, report, removed, mon>>
    /\ UNCHANGED <<cfg, localFiles, mainPc, folderIndex, totalFilesUploaded,
                   SuccessCount, UploadedS3Files, stats>>

\* faulty variant: the trailing return counts the failure like the one
\* inside the loop
LoopFallThroughCounts(b, i) ==
    LET f == batches[b].files[i] IN
    /\ batches[b].pc = "uploading"
    /\ f.pc = "loop"
    /\ f.attempt > cfg.maxRetries
    /\ stats' = UpdateStats(stats, FALSE)
    /\ batches' = SetFile(b, i, [f EXCEPT !.pc = "release", !.result = "err",
                                          !.recF = @ + 1])
    /\ UNCHANGED benchVars
    /\ UNCHANGED <<startVars, deleted, report, removed, mon>>
    /\ UNCHANGED <<cfg, localFiles, mainPc, folderIndex, totalFilesUploaded,
                   SuccessCount, ClientIndex, UploadedS3Files>>

\* attempt > MaxRetries at the loop head: the loop is left and the trailing
\* return reports the error, without any statistics
LoopFallThrough(b, i) ==
    LET f == batches[b].files[i] IN
    /\ batches[b].pc = "uploading"
    /\ f.pc = "loop"
    /\ f.attempt > cfg.maxRetries
    /\ batches' = SetFile(b, i, [f EXCEPT !.pc = "release", !.result = "err"])
    /\ UNCHANGED benchVars
    /\ UNCHANGED <<startVars, deleted, report, removed, mon>>
    /\ UNCHANGED <<cfg, localFiles, mainPc, folderIndex, totalFilesUploaded,
                   SuccessCount, ClientIndex, UploadedS3Files, stats>>

\* faulty variant: on success the key is appended to the registry first, the
\* SuccessCount increment and monitor.UpdateStats(true) follow
PutSucceedsAppendsFirst(b, i) ==
    LET f == batches[b].files[i] IN
    /\ batches[b].pc = "uploading"
    /\ \/ /\ f.pc = "put"
          /\ UploadedS3Files' = Append(UploadedS3Files, S3Key(batches[b].name, f.fp))
          /\ batches' = SetFile(b, i, [f EXCEPT !.pc = "late_count", !.okAt = f.attempts,
                                                !.app = @ + 1])
          /\ UNCHANGED <<SuccessCount, stats>>
       \/ /\ f.pc = "late_count"
          /\ SuccessCount' = SuccessCount + 1
          /\ batches' = SetFile(b, i, [f EXCEPT !.pc = "late_stats"])
          /\ UNCHANGED <<UploadedS3Files, stats>>
       \/ /\ f.pc = "late_stats"
          /\ stats' = UpdateStats(stats, TRUE)
          /\ batches' = SetFile(b, i, [f EXCEPT !.pc = "release", !.result = "ok",
                                                !.recS = @ + 1])
          /\ UNCHANGED <<UploadedS3Files, SuccessCount>>
    /\ UNCHANGED benchVars
    /\ UNCHANGED <<startVars, deleted, report, removed, mon>>
    /\ UNCHANGED <<cfg, localFiles, mainPc, folderIndex, totalFilesUploaded,
                   ClientIndex>>

\* uploadFile returns nil: atomic.AddInt64(&u.SuccessCount, 1)
PutSucceeds(b, i) ==
    LET f == batches[b].files[i] IN
    /\ batches[b].pc = "uploading"
    /\ f.pc = "put"
    /\ SuccessCount' = SuccessCount + 1
    /\ batches' = SetFile(b, i, [f EXCEPT !.pc = "succ_stats", !.okAt = f.attempts])
    /\ UNCHANGED benchVars
    /\ UNCHANGED <<startVars, deleted, report, removed, mon>>
    /\ UNCHANGED <<cfg, localFiles, mainPc, folderIndex, totalFilesUploaded,
                   ClientIndex, UploadedS3Files, stats>>

\* monitor.UpdateStats(true)
SuccUpdateStats(b, i) ==
    LET f == batches[b].files[i] IN
    /\ batches[b].pc = "uploading"
    /\ f.pc = "succ_stats"
    /\ stats' = UpdateStats(stats, TRUE)
    /\ batches' = SetFile(b, i, [f EXCEPT !.pc = "succ_append", !.recS = @ + 1])
    /\ UNCHANGED benchVars
    /\ UNCHANGED <<startVars, deleted, report, removed, mon>>
    /\ UNCHANGED <<cfg, localFiles, mainPc, folderIndex, totalFilesUploaded,
                   SuccessCount, ClientIndex, UploadedS3Files>>

\* faulty variant: the append is not serialized, so of two concurrent appends one
\* overwrites the other
SuccAppendUnlocked(b, i) ==
    LET f == batches[b].files[i] IN
    /\ batches[b].pc = "uploading"
    /\ f.pc = "succ_append"
    /\ UploadedS3Files' =
          IF \E c \in BatchIds : \E j \in FileIds(c) :
                <<c, j>> # <<b, i>> /\ batches[c].files[j].pc = "succ_append"
          THEN UploadedS3Files
          ELSE Append(UploadedS3Files, S3Key(batches[b].name, f.fp))
    /\ batches' = SetFile(b, i,
           [f EXCEPT !.pc = "release", !.result = "ok", !.app = @ + 1])
    /\ UNCHANGED benchVars
    /\ UNCHANGED <<startVars, deleted, report, removed, mon>>
    /\ UNCHANGED <<cfg, localFiles, mainPc, folderIndex, totalFilesUploaded,
                   SuccessCount, ClientIndex, stats>>

\* u.Mutex.Lock(); append(u.UploadedS3Files, s3Key); u.Mutex.Unlock(); return nil
SuccAppend(b, i) ==
    LET f == batches[b].files[i] IN
    /\ batches[b].pc = "uploading"
    /\ f.pc = "succ_append"
    /\ UploadedS3Files' = Append(UploadedS3Files, S3Key(batches[b].name, f.fp))
    /\ batches' = SetFile(b, i,
           [f EXCEPT !.pc = "release", !.result = "ok", !.app = @ + 1])
    /\ UNCHANGED benchVars
    /\ UNCHANGED <<startVars, deleted, report, removed, mon>>
    /\ UNCHANGED <<cfg, localFiles, mainPc, folderIndex, totalFilesUploaded,
                   SuccessCount, ClientIndex, stats>>

\* faulty variant: every failed attempt is reported to the monitor
PutFailsCountsEach(b, i) ==
    LET f == batches[b].files[i] IN
    /\ batches[b].pc = "uploading"
    /\ f.pc = "put"
    /\ stats' = UpdateStats(stats, FALSE)
    /\ IF f.attempt < cfg.maxRetries
       THEN batches' = SetFile(b, i,
                   [f EXCEPT !.pc = "sleep", !.sleeps = Append(@, Backoff(f.attempt)),
                             !.recF = @ + 1])
       ELSE batches' = SetFile(b, i,
                   [f EXCEPT !.pc = "release", !.result = "err", !.recF = @ + 1])
    /\ UNCHANGED benchVars
    /\ UNCHANGED <<startVars, deleted, report, removed, mon>>
    /\ UNCHANGED <<cfg, localFiles, mainPc, folderIndex, totalFilesUploaded,
                   SuccessCount, ClientIndex, UploadedS3Files>>

\* faulty variant: a permanent failure ends the file goroutine without
\* giving the slot back and without wg.Done()
PutFailsAborts(b, i) ==
    LET f == batches[b].files[i] IN
    /\ batches[b].pc = "uploading"
    /\ f.pc = "put"
    /\ IF f.attempt < cfg.maxRetries
       THEN /\ batches' = SetFile(b, i,
                   [f EXCEPT !.pc = "sleep", !.sleeps = Append(@, Backoff(f.attempt))])
            /\ stats' = stats
       ELSE /\ stats' = UpdateStats(stats, FALSE)
            /\ batches' = SetFile(b, i,
                   [f EXCEPT !.pc = "aborted", !.result = "err", !.recF = @ + 1])
    /\ UNCHANGED benchVars
    /\ UNCHANGED <<startVars, deleted, report, removed, mon>>
    /\ UNCHANGED <<cfg, localFiles, mainPc, folderIndex, totalFilesUploaded,
                   SuccessCount, ClientIndex, UploadedS3Files>>

\* uploadFile returns an error. attempt < MaxRetries: sleep 2^attempt seconds;
\* otherwise monitor.UpdateStats(false) and return the error
PutFails(b, i) ==
    LET f == batches[b].files[i] IN
    /\ batches[b].pc = "uploading"
    /\ f.pc = "put"
    /\ IF f.attempt < cfg.maxRetries
       THEN /\ batches' = SetFile(b, i,
                   [f EXCEPT !.pc = "sleep", !.sleeps = Append(@, Backoff(f.attempt))])
            /\ stats' = stats
       ELSE /\ stats' = UpdateStats(stats, FALSE)
            /\ batches' = SetFile(b, i,
                   [f EXCEPT !.pc = "release", !.result = "err", !.recF = @ + 1])
    /\ UNCHANGED benchVars
    /\ UNCHANGED <<startVars, deleted, report, removed, mon>>
    /\ UNCHANGED <<cfg, localFiles, mainPc, folderIndex, totalFilesUploaded,
                   SuccessCount, ClientIndex, UploadedS3Files>>

\* time.Sleep(backoffDuration) returns; attempt++
BackoffEnds(b, i) ==
    LET f == batches[b].files[i] IN
    /\ batches[b].pc = "uploading"
    /\ f.pc = "sleep"
    /\ batches' = SetFile(b, i, [f EXCEPT !.pc = "loop", !.attempt = @ + 1])
    /\ UNCHANGED benchVars
    /\ UNCHANGED <<startVars, deleted, report, removed, mon>>
    /\ UNCHANGED <<cfg, localFiles, mainPc, folderIndex, totalFilesUploaded,
                   SuccessCount, ClientIndex, UploadedS3Files, stats>>

\* UploadFileWithRetry has returned: <-semaphore and the deferred wg.Done()
FileRelease(b, i) ==
    LET f == batches[b].files[i] IN
    /\ batches[b].pc = "uploading"
    /\ f.pc = "release"
    /\ batches' = SetFile(b, i, [f EXCEPT !.pc = "done"])
    /\ UNCHANGED benchVars
    /\ UNCHANGED <<startVars, deleted, report, removed, mon>>
    /\ UNCHANGED <<cfg, localFiles, mainPc, folderIndex, totalFilesUploaded,
                   SuccessCount, ClientIndex, UploadedS3Files, stats>>

(* ------------------------- benchmark engine ---------------------------- *)
\* the phase (and so the context) a loop runs under
PhaseOf(k) == IF k = "DELETE" THEN "delete" ELSE "read"

ZeroMetrics ==
    [TotalOperations |-> 0, TotalTime |-> 0, MinTime |-> 0, MaxTime |-> 0,
     ErrorCount |-> 0]

\* a performOperation call: pc of its for/select loop, the tasks it spawned
\* by stage (spawned: goroutine created; op: S3 call in flight; rel: sample
\* recorded, slot not yet given back), the number of tasks it admitted
\* (wg.Add(1) calls), how many of them it created after the deadline, and
\* what its S3 calls returned (errs: calls that returned an error; durSum:
\* sum of the measured durations; seen: the measured durations), the keys
\* its tasks in flight have picked (sel), the S3 clients its tasks have sent
\* a request to (clients) and the calls that returned an error for a key
\* whose object was already deleted (goneErrs)
IdleLoop ==
    [pc |-> "idle", admitted |-> 0, spawned |-> 0, op |-> 0, rel |-> 0,
     lateAdmits |-> 0, errs |-> 0, durSum |-> 0, seen |-> {}, sel |-> EmptyBag,
     clients |-> {}, goneErrs |-> 0]

\* faulty variant: every sample is counted as an error
RecordCountsAll(m, duration, failed) ==
    [TotalOperations |-> m.TotalOperations + 1,
     TotalTime  |-> m.TotalTime + duration,
     MinTime    |-> IF m.MinTime = 0 \/ duration < m.MinTime THEN duration ELSE m.MinTime,
     MaxTime    |-> IF duration > m.MaxTime THEN duration ELSE m.MaxTime,
     ErrorCount |-> m.ErrorCount + 1]

\* faulty variant: MaxTime keeps the last sample instead of the largest
RecordLastDuration(m, duration, failed) ==
    [TotalOperations |-> m.TotalOperations + 1,
     TotalTime  |-> m.TotalTime + duration,
     MinTime    |-> IF m.MinTime = 0 \/ duration < m.MinTime THEN duration ELSE m.MinTime,
     MaxTime    |-> duration,
     ErrorCount |-> IF failed THEN m.ErrorCount + 1 ELSE m.ErrorCount]

\* the critical section of a task between mu.Lock() and mu.Unlock()
Record(m, duration, failed) ==
    [TotalOperations |-> m.TotalOperations + 1,
     TotalTime  |-> m.TotalTime + duration,
     MinTime    |-> IF m.MinTime = 0 \/ duration < m.MinTime THEN duration ELSE m.MinTime,
     MaxTime    |-> IF duration > m.MaxTime THEN duration ELSE m.MaxTime,
     ErrorCount |-> IF failed THEN m.ErrorCount + 1 ELSE m.ErrorCount]

\* slots of the loop's semaphore channel that are taken
SlotsTaken(k) == loops[k].spawned + loops[k].op + loops[k].rel

\* counter of the loop's WaitGroup: wg.Add(1) precedes the semaphore send
WgCount(k) == SlotsTaken(k) + (IF loops[k].pc = "send" THEN 1 ELSE 0)

\* operations admitted so far by the three loops together
AdmittedTotal == loops["GET"].admitted + loops["STAT"].admitted + loops["DELETE"].admitted

InitBenchVars ==
    /\ benchPc = "idle"
    /\ ctxDone = [p \in {"read", "delete"} |-> FALSE]
    /\ loops = [k \in Kinds |-> IdleLoop]
    /\ metrics = [k \in Kinds |-> ZeroMetrics]
    /\ exitStatus = -1
    /\ repl = IdleRepl
    /\ deleted = {}
    /\ report = NoReport
    /\ removed = DOMAIN localFiles
    /\ mon = IdleMon

\* PerformBenchmarkOperations is entered: the READ context is created and
\* the GET and STAT goroutines are started
BenchStart ==
    /\ mainPc = "bench"
    /\ benchPc = "idle"
    /\ benchPc' = "read"
    /\ loops' = [loops EXCEPT !["GET"].pc = "start", !["STAT"].pc = "start"]
    /\ UNCHANGED <<ctxDone, metrics>>
    /\ UNCHANGED uploadVars
    /\ UNCHANGED <<startVars, deleted, report, removed, mon>>

\* the timer of the running phase's context expires
DeadlineFires(p) ==
    /\ benchPc = p
    /\ ~ctxDone[p]
    /\ ctxDone' = [ctxDone EXCEPT ![p] = TRUE]
    /\ UNCHANGED <<benchPc, loops, metrics>>
    /\ UNCHANGED uploadVars
    /\ UNCHANGED <<startVars, deleted, report, removed, mon>>

\* faulty variant: the loop is entered without the check for an empty registry
LoopEnterNoCheck(k) ==
    /\ loops[k].pc = "start"
    /\ loops' = [loops EXCEPT ![k].pc = "select"]
    /\ UNCHANGED <<benchPc, ctxDone, metrics>>
    /\ UNCHANGED uploadVars
    /\ UNCHANGED <<startVars, deleted, report, removed, mon>>

\* performOperation is entered: an empty registry makes it return at once
LoopEnter(k) ==
    /\ loops[k].pc = "start"
    /\ loops' = [loops EXCEPT ![k].pc =
                    IF Len(UploadedS3Files) = 0 THEN "returned" ELSE "select"]
    /\ UNCHANGED <<benchPc, ctxDone, metrics>>
    /\ UNCHANGED uploadVars
    /\ UNCHANGED <<startVars, deleted, report, removed, mon>>

\* faulty variant: the ctx.Done() branch returns without wg.Wait()
LoopSelectNoDrain(k) ==
    /\ loops[k].pc = "select"
    /\ ctxDone[PhaseOf(k)] \/ AdmittedTotal < cfg.benchmarkOps
    /\ loops' = [loops EXCEPT
          ![k].pc = IF ctxDone[PhaseOf(k)] THEN "returned" ELSE "send",
          ![k].admitted = IF ctxDone[PhaseOf(k)] THEN @ ELSE @ + 1]
    /\ UNCHANGED <<benchPc, ctxDone, metrics>>
    /\ UNCHANGED uploadVars
    /\ UNCHANGED <<startVars, deleted, report, removed, mon>>

\* faulty variant: a loop whose kind has counted an error stops admitting
LoopSelectStopsOnError(k) ==
    /\ loops[k].pc = "select"
    /\ ctxDone[PhaseOf(k)] \/ metrics[k].ErrorCount > 0
          \/ AdmittedTotal < cfg.benchmarkOps
    /\ loops' = [loops EXCEPT
          ![k].pc = IF ctxDone[PhaseOf(k)] \/ metrics[k].ErrorCount > 0
                    THEN "drain" ELSE "send",
          ![k].admitted = IF ctxDone[PhaseOf(k)] \/ metrics[k].ErrorCount > 0
                          THEN @ ELSE @ + 1]
    /\ UNCHANGED <<benchPc, ctxDone, metrics>>
    /\ UNCHANGED uploadVars
    /\ UNCHANGED <<startVars, deleted, report, removed, mon>>

\* faulty variant: the select has no ctx.Done() case, the loop only admits
LoopSelectIgnoresDeadline(k) ==
    /\ loops[k].pc = "select"
    /\ AdmittedTotal < cfg.benchmarkOps
    /\ loops' = [loops EXCEPT ![k].pc = "send", ![k].admitted = @ + 1]
    /\ UNCHANGED <<benchPc, ctxDone, metrics>>
    /\ UNCHANGED uploadVars
    /\ UNCHANGED <<startVars, deleted, report, removed, mon>>

\* faulty variant: the select may take its default branch although
\* ctx.Done() is ready
LoopSelectEitherBranch(k) ==
    /\ loops[k].pc = "select"
    /\ \/ /\ ctxDone[PhaseOf(k)]
          /\ loops' = [loops EXCEPT ![k].pc = "drain"]
       \/ /\ AdmittedTotal < cfg.benchmarkOps
          /\ loops' = [loops EXCEPT ![k].pc = "send", ![k].admitted = @ + 1]
    /\ UNCHANGED <<benchPc, ctxDone, metrics>>
    /\ UNCHANGED uploadVars
    /\ UNCHANGED <<startVars, deleted, report, removed, mon>>

\* select { case <-ctx.Done(): ... default: wg.Add(1) ... }
LoopSelect(k) ==
    /\ loops[k].pc = "select"
    /\ ctxDone[PhaseOf(k)] \/ AdmittedTotal < cfg.benchmarkOps
    /\ loops' = [loops EXCEPT
          ![k].pc = IF ctxDone[PhaseOf(k)] THEN "drain" ELSE "send",
          ![k].admitted = IF ctxDone[PhaseOf(k)] THEN @ ELSE @ + 1]
    /\ UNCHANGED <<benchPc, ctxDone, metrics>>
    /\ UNCHANGED uploadVars
    /\ UNCHANGED <<startVars, deleted, report, removed, mon>>

\* faulty variant: the task is created without taking a semaphore slot first
LoopSpawnNoSem(k) ==
    /\ loops[k].pc = "send"
    /\ loops' = [loops EXCEPT
          ![k].pc = "select",
          ![k].spawned = @ + 1,
          ![k].lateAdmits = IF ctxDone[PhaseOf(k)] THEN @ + 1 ELSE @]
    /\ UNCHANGED <<benchPc, ctxDone, metrics>>
    /\ UNCHANGED uploadVars
    /\ UNCHANGED <<startVars, deleted, report, removed, mon>>

\* semaphore <- struct{}{} goes through and go func() creates the task
LoopSpawn(k) ==
    /\ loops[k].pc = "send"
    /\ SlotsTaken(k) < cfg.maxBenchmarkThreads
    /\ loops' = [loops EXCEPT
          ![k].pc = "select",
          ![k].spawned = @ + 1,
          ![k].lateAdmits = IF ctxDone[PhaseOf(k)] THEN @ + 1 ELSE @]
    /\ UNCHANGED <<benchPc, ctxDone, metrics>>
    /\ UNCHANGED uploadVars
    /\ UNCHANGED <<startVars, deleted, report, removed, mon>>

\* the S3 client main hands to PerformBenchmarkOperations: s3Clients[0], as a
\* position in the Uploader's S3Clients
BenchClient == 0

\* faulty variant: the task takes its client from the upload round-robin
TaskStartRoundRobin(k) ==
    /\ loops[k].spawned > 0
    /\ ClientIndex' = ClientIndex + 1
    /\ \E idx \in 1..Len(UploadedS3Files) :
         LET s3Key == UploadedS3Files[idx] IN
         loops' = [loops EXCEPT
            ![k].spawned = @ - 1,
            ![k].op = @ + 1,
            ![k].sel = @ (+) SetToBag({s3Key}),
            ![k].clients = @ \cup {S3ClientFor(ClientIndex')}]
    /\ UNCHANGED <<benchPc, ctxDone, metrics>>
    /\ UNCHANGED <<cfg, localFiles, mainPc, folderIndex, totalFilesUploaded,
                   batches, SuccessCount, UploadedS3Files, stats>>
    /\ UNCHANGED <<startVars, deleted, report, removed, mon>>

\* the task picks uploadedS3Files[rand.Intn(fileCount)], reads the clock and
\* sends its request with the s3Client performOperation was given
TaskStart(k) ==
    /\ loops[k].spawned > 0
    /\ \E idx \in 1..Len(UploadedS3Files) :
         LET s3Key == UploadedS3Files[idx] IN
         loops' = [loops EXCEPT
            ![k].spawned = @ - 1,
            ![k].op = @ + 1,
            ![k].sel = @ (+) SetToBag({s3Key}),
            ![k].clients = @ \cup {BenchClient}]
    /\ UNCHANGED <<benchPc, ctxDone, metrics>>
    /\ UNCHANGED uploadVars
    /\ UNCHANGED <<startVars, deleted, report, removed, mon>>

\* faulty variant: the sample is recorded without mu, so the update of a task
\* is lost when another task of the same loop is recording too
TaskRecordsUnlocked(k) ==
    /\ loops[k].op > 0
    /\ \E s3Key \in BagToSet(loops[k].sel), duration \in 0..MaxDur, failed \in BOOLEAN :
         /\ metrics' = IF loops[k].op > 1 THEN metrics
                       ELSE [metrics EXCEPT ![k] = Record(@, duration, failed)]
         /\ loops' = [loops EXCEPT
               ![k].op = @ - 1, ![k].rel = @ + 1,
               ![k].errs = IF failed THEN @ + 1 ELSE @,
               ![k].durSum = @ + duration,
               ![k].seen = @ \cup {duration},
               ![k].sel = @ (-) SetToBag({s3Key}),
               ![k].goneErrs = IF failed /\ s3Key \in deleted THEN @ + 1 ELSE @]
         /\ deleted' = IF k = "DELETE" /\ ~failed THEN deleted \cup {s3Key} ELSE deleted
    /\ UNCHANGED <<benchPc, ctxDone>>
    /\ UNCHANGED uploadVars
    /\ UNCHANGED <<startVars, report, removed, mon>>

\* faulty variant: a DELETE task that succeeded takes its key out of the
\* registry
TaskRecordsPrunes(k) ==
    /\ loops[k].op > 0
    /\ \E s3Key \in BagToSet(loops[k].sel), duration \in 0..MaxDur, failed \in BOOLEAN :
         /\ metrics' = [metrics EXCEPT ![k] = Record(@, duration, failed)]
         /\ loops' = [loops EXCEPT
               ![k].op = @ - 1, ![k].rel = @ + 1,
               ![k].errs = IF failed THEN @ + 1 ELSE @,
               ![k].durSum = @ + duration,
               ![k].seen = @ \cup {duration},
               ![k].sel = @ (-) SetToBag({s3Key}),
               ![k].goneErrs = IF failed /\ s3Key \in deleted THEN @ + 1 ELSE @]
         /\ deleted' = IF k = "DELETE" /\ ~failed THEN deleted \cup {s3Key} ELSE deleted
         /\ UploadedS3Files' =
               IF k = "DELETE" /\ ~failed
               THEN SelectSeq(UploadedS3Files, LAMBDA key : key # s3Key)
               ELSE UploadedS3Files
    /\ UNCHANGED <<benchPc, ctxDone>>
    /\ UNCHANGED <<cfg, localFiles, mainPc, folderIndex, totalFilesUploaded,
                   batches, SuccessCount, ClientIndex, stats>>
    /\ UNCHANGED <<startVars, report, removed, mon>>

\* the S3 call of a task returns (a DeleteObject that returns no error has
\* removed the key's object) and the task records its sample under mu
TaskRecords(k) ==
    /\ loops[k].op > 0
    /\ \E s3Key \in BagToSet(loops[k].sel), duration \in 0..MaxDur, failed \in BOOLEAN :
         /\ metrics' = [metrics EXCEPT ![k] = Record(@, duration, failed)]
         /\ loops' = [loops EXCEPT
               ![k].op = @ - 1, ![k].rel = @ + 1,
               ![k].errs = IF failed THEN @ + 1 ELSE @,
               ![k].durSum = @ + duration,
               ![k].seen = @ \cup {duration},
               ![k].sel = @ (-) SetToBag({s3Key}),
               ![k].goneErrs = IF failed /\ s3Key \in deleted THEN @ + 1 ELSE @]
         /\ deleted' = IF k = "DELETE" /\ ~failed THEN deleted \cup {s3Key} ELSE deleted
    /\ UNCHANGED <<benchPc, ctxDone>>
    /\ UNCHANGED uploadVars
    /\ UNCHANGED <<startVars, report, removed, mon>>

\* <-semaphore and the deferred wg.Done()
TaskRelease(k) ==
    /\ loops[k].rel > 0
    /\ loops' = [loops EXCEPT ![k].rel = @ - 1]
    /\ UNCHANGED <<benchPc, ctxDone, metrics>>
    /\ UNCHANGED uploadVars
    /\ UNCHANGED <<startVars, deleted, report, removed, mon>>

\* wg.Wait() of the ctx.Done() branch returns, performOperation returns
LoopDrained(k) ==
    /\ loops[k].pc = "drain"
    /\ WgCount(k) = 0
    /\ loops' = [loops EXCEPT ![k].pc = "returned"]
    /\ UNCHANGED <<benchPc, ctxDone, metrics>>
    /\ UNCHANGED uploadVars
    /\ UNCHANGED <<startVars, deleted, report, removed, mon>>

\* the first wg.Wait() of PerformBenchmarkOperations returns; the DELETE
\* context is created and the DELETE goroutine is started
ReadPhaseEnds ==
    /\ benchPc = "read"
    /\ loops["GET"].pc = "returned"
    /\ loops["STAT"].pc = "returned"
    /\ benchPc' = "delete"
    /\ loops' = [loops EXCEPT !["DELETE"].pc = "start"]
    /\ UNCHANGED <<ctxDone, metrics>>
    /\ UNCHANGED uploadVars
    /\ UNCHANGED <<startVars, deleted, report, removed, mon>>

\* the second wg.Wait() returns and the BenchmarkResult is returned
BenchEnds ==
    /\ benchPc = "delete"
    /\ loops["DELETE"].pc = "returned"
    /\ benchPc' = "done"
    /\ UNCHANGED <<ctxDone, loops, metrics>>
    /\ UNCHANGED uploadVars
    /\ UNCHANGED <<startVars, deleted, report, removed, mon>>

\* the configurations the benchmark engine is started with: a run of one
\* file, one attempt, whose loops admit benchmarkOps operations in all on
\* maxBenchmarkThreads threads each
BenchConfigs ==
    {c \in [totalFiles : {1}, maxFilesPerFolder : {1}, maxConcurrentUploads : {1},
            maxConcurrentSubfolders : {1}, maxRetries : {1}, maxLocalFiles : {1},
            numClients : {1}, maxBenchmarkThreads : 1..MaxThreads,
            benchmarkOps : 1..MaxOps] :
        c.maxBenchmarkThreads * c.benchmarkOps <= MaxBenchWork}

\* the state of main() when it calls PerformBenchmarkOperations, after an
\* upload stage whose single file was stored (registry of one key) or failed
\* permanently (empty registry)
BenchCalled ==
    /\ localFiles = <<0>>
    /\ mainPc = "bench"
    /\ folderIndex = 1
    /\ totalFilesUploaded = 1
    /\ ClientIndex = 1
    /\ \E stored \in BOOLEAN :
         LET n == IF stored THEN 1 ELSE 0
             name == SubfolderName(0, 1, 0) IN
         /\ batches = <<[pc |-> "done", folderIdx |-> 0, filesCount |-> 1,
                         name |-> name, freedBy |-> 0,
                         files |-> <<[NewFile(0) EXCEPT
                                        !.pc = "done", !.attempt = 1, !.attempts = 1,
                                        !.clients = <<S3ClientFor(1)>>, !.okAt = n,
                                        !.result = IF stored THEN "ok" ELSE "err",
                                        !.recS = n, !.recF = 1 - n, !.app = n]>>]>>
         /\ SuccessCount = n
         /\ UploadedS3Files = IF stored THEN <<S3Key(name, 0)>> ELSE <<>>
         /\ stats = [TotalUploads |-> 1, Successes |-> n, Failures |-> 1 - n]
    /\ InitBenchVars

InitBench == cfg \in BenchConfigs /\ BenchCalled

NextBench ==
    \/ BenchStart
    \/ \E p \in {"read", "delete"} : DeadlineFires(p)
    \/ \E k \in Kinds : LoopEnter(k)
    \/ \E k \in Kinds : LoopSelect(k)
    \/ \E k \in Kinds : LoopSpawn(k)
    \/ \E k \in Kinds : TaskStart(k)
    \/ \E k \in Kinds : TaskRecords(k)
    \/ \E k \in Kinds : TaskRelease(k)
    \/ \E k \in Kinds : LoopDrained(k)
    \/ ReadPhaseEnds
    \/ BenchEnds

SpecBench == InitBench /\ [][NextBench]_vars

\* the benchmark engine and the final report, one thread per loop, after an
\* upload stage with MaxClients endpoint clients
ReportConfigs ==
    [totalFiles : {1}, maxFilesPerFolder : {1}, maxConcurrentUploads : {1},
     maxConcurrentSubfolders : {1}, maxRetries : {1}, maxLocalFiles : {1},
     numClients : {MaxClients}, maxBenchmarkThreads : {1},
     benchmarkOps : {MaxOps}]

InitReport == cfg \in ReportConfigs /\ BenchCalled

NextReport ==
    \/ NextBench
    \/ MainReport

SpecReport == InitReport /\ [][NextReport]_vars

(* --------------------------- specifications ---------------------------- *)
NextUpload ==
    \/ MainLaunchBatch
    \/ MainLoopExit
    \/ MainWaitReturns
    \/ \E b \in BatchIds : BatchAcquire(b)
    \/ \E b \in BatchIds : ProcessSubfolder(b)
    \/ \E b \in BatchIds : UploadFilesReturns(b)
    \/ \E b \in BatchIds : BatchRelease(b)
    \/ \E b \in BatchIds : BatchPauseEnds(b)
    \/ \E b \in BatchIds : \E i \in FileIds(b) : FileAcquire(b, i)
    \/ \E b \in BatchIds : \E i \in FileIds(b) : StartAttempt(b, i)
    \/ \E b \in BatchIds : \E i \in FileIds(b) : LoopFallThrough(b, i)
    \/ \E b \in BatchIds : \E i \in FileIds(b) : PutSucceeds(b, i)
    \/ \E b \in BatchIds : \E i \in FileIds(b) : SuccUpdateStats(b, i)
    \/ \E b \in BatchIds : \E i \in FileIds(b) : SuccAppend(b, i)
    \/ \E b \in BatchIds : \E i \in FileIds(b) : PutFails(b, i)
    \/ \E b \in BatchIds : \E i \in FileIds(b) : BackoffEnds(b, i)
    \/ \E b \in BatchIds : \E i \in FileIds(b) : FileRelease(b, i)

SpecUpload == InitUpload /\ [][NextUpload]_vars

\* the upload stage up to the call of PerformBenchmarkOperations, when every
\* goroutine that can take a step eventually takes one: the scheduler runs
\* every runnable goroutine, every time.Sleep ends and every PutObject call
\* returns
NextToBench ==
    \/ NextUpload
    \/ MainCleanup

\* its configurations: batches that run one after the other and make at
\* most MaxRunAttempts upload attempts in all
FairConfigs ==
    {c \in UploadConfigs :
        /\ c.totalFiles * c.maxRetries <= MaxRunAttempts
        /\ c.maxConcurrentSubfolders = 1
        /\ c.maxLocalFiles = 1}

InitFair == InitUpload /\ cfg \in FairConfigs

SpecUploadFair == InitFair /\ [][NextToBench]_vars /\ WF_vars(NextToBench)

\* the upload stage with one or more endpoint clients
SpecClients == InitClients /\ [][NextUpload]_vars

\* the whole run of main(): upload stage, cleanup, benchmark, report, for
\* the configurations of one-file batches that make at most MaxRunAttempts
\* upload attempts
RunConfigs ==
    {c \in UploadConfigs :
        /\ c.totalFiles * c.maxRetries <= MaxRunAttempts
        /\ c.maxFilesPerFolder = 1 /\ c.maxConcurrentUploads = 1
        /\ c.maxLocalFiles = 1}

InitRun == InitUpload /\ cfg \in RunConfigs

NextRun ==
    \/ NextUpload
    \/ MainCleanup
    \/ NextBench
    \/ MainReport

SpecRun == InitRun /\ [][NextRun]_vars

\* the two stages that write the shared state, each followed from its
\* start: the upload stage of one batch with one or more endpoint clients,
\* up to main's wg.Wait(), and the benchmark with the final report, after an
\* upload stage of one file
InitGrow == InitClients \/ InitBench

NextGrow ==
    \/ NextUpload
    \/ NextBench
    \/ MainReport

SpecGrow == InitGrow /\ [][NextGrow]_vars

\* the upload stage for every sign of maxRetries: batches one after the
\* other, at most MaxRunAttempts upload attempts in all
RetryConfigs ==
    {c \in [totalFiles : 1..MaxTotalFiles,
            maxFilesPerFolder : 1..MaxTotalFiles,
            maxConcurrentUploads : 1..MaxWorkers,
            maxConcurrentSubfolders : {1},
            maxRetries : -1..MaxRetriesCfg,
            maxLocalFiles : {1},
            numClients : {1},
            maxBenchmarkThreads : {1},
            benchmarkOps : {1}] :
        /\ c.totalFiles * c.maxRetries <= MaxRunAttempts
        /\ c.maxConcurrentUploads <= Min(c.maxFilesPerFolder, c.totalFiles)}

InitRetry == cfg \in RetryConfigs /\ UploaderCreated

SpecRetry == InitRetry /\ [][NextUpload]_vars

(* --------------------- package monitor, by statement -------------------- *)
\* mon.lock: 0 when statsLock is free, the number of the UpdateStats call
\* that holds it, or Reader while GetStats or ToJSON holds it
Reader == -1

MonCalls == 1..Len(mon.calls)

\* the UpdateStats calls that have returned
CallsReturned == {c \in MonCalls : mon.calls[c].pc = "done"}

MonFrame ==
    /\ UNCHANGED <<cfg, localFiles, mainPc, folderIndex, totalFilesUploaded,
                   batches, SuccessCount, ClientIndex, UploadedS3Files>>
    /\ UNCHANGED benchVars
    /\ UNCHANGED <<startVars, deleted, report, removed>>

\* a goroutine calls UpdateStats(success)
CallUpdateStats ==
    /\ Len(mon.calls) < MaxCalls
    /\ \E success \in BOOLEAN :
         mon' = [mon EXCEPT !.calls = Append(@, [pc |-> "lock", success |-> success,
                                                 tmp |-> 0])]
    /\ UNCHANGED stats
    /\ MonFrame

\* faulty variant: UpdateStats does not take statsLock
StatsLockNoWait(c) ==
    /\ mon.calls[c].pc = "lock"
    /\ mon' = [mon EXCEPT !.calls[c].pc = "read"]
    /\ UNCHANGED stats
    /\ MonFrame

\* statsLock.Lock()
StatsLock(c) ==
    /\ mon.calls[c].pc = "lock"
    /\ mon.lock = 0
    /\ mon' = [mon EXCEPT !.lock = c, !.calls[c].pc = "read"]
    /\ UNCHANGED stats
    /\ MonFrame

\* stats.TotalUploads++ : the load
StatsReadTotal(c) ==
    /\ mon.calls[c].pc = "read"
    /\ mon' = [mon EXCEPT !.calls[c].pc = "write", !.calls[c].tmp = stats.TotalUploads]
    /\ UNCHANGED stats
    /\ MonFrame

\* stats.TotalUploads++ : the store
StatsWriteTotal(c) ==
    /\ mon.calls[c].pc = "write"
    /\ stats' = [stats EXCEPT !.TotalUploads = mon.calls[c].tmp + 1]
    /\ mon' = [mon EXCEPT !.calls[c].pc = "outcome", !.calls[c].tmp = 0]
    /\ MonFrame

\* if success { stats.Successes++ } else { stats.Failures++ }
StatsOutcome(c) ==
    /\ mon.calls[c].pc = "outcome"
    /\ stats' = IF mon.calls[c].success
                THEN [stats EXCEPT !.Successes = @ + 1]
                ELSE [stats EXCEPT !.Failures = @ + 1]
    /\ mon' = [mon EXCEPT !.calls[c].pc = "unlock"]
    /\ MonFrame

\* the deferred statsLock.Unlock(); UpdateStats returns
StatsUnlock(c) ==
    /\ mon.calls[c].pc = "unlock"
    /\ mon' = [mon EXCEPT !.lock = IF @ = c THEN 0 ELSE @, !.calls[c].pc = "done"]
    /\ UNCHANGED stats
    /\ MonFrame

\* GetStats or ToJSON: statsLock.Lock()
ReaderLocks ==
    /\ mon.lock = 0
    /\ mon' = [mon EXCEPT !.lock = Reader]
    /\ UNCHANGED stats
    /\ MonFrame

\* GetStats returns its copy of stats (ToJSON: marshals it), the deferred
\* statsLock.Unlock() runs; copied notes the UpdateStats calls that had
\* returned by then
ReaderCopies ==
    /\ mon.lock = Reader
    /\ mon' = [mon EXCEPT !.lock = 0, !.copy = stats,
                          !.copied = Cardinality(CallsReturned)]
    /\ UNCHANGED stats
    /\ MonFrame

NextMonitor ==
    \/ CallUpdateStats
    \/ \E c \in MonCalls :
         \/ StatsLock(c)
         \/ StatsReadTotal(c)
         \/ StatsWriteTotal(c)
         \/ StatsOutcome(c)
         \/ StatsUnlock(c)
    \/ ReaderLocks
    \/ ReaderCopies

\* package monitor after InitializeStats, used by up to MaxCalls goroutines
\* and a reader
InitMonitor ==
    /\ cfg \in {c \in RunConfigs : c.totalFiles = 1 /\ c.maxRetries = 1
                                   /\ c.maxConcurrentSubfolders = 1}
    /\ UploaderCreated

SpecMonitor == InitMonitor /\ [][NextMonitor]_vars

\* the run under fair scheduling: every runnable goroutine runs, every
\* storage call returns, every sleep ends and every phase deadline fires.
\* It is followed from the start of the upload stage, for the
\* configurations of FairConfigs (maxRetries 0 among them), through the
\* benchmark to the report, and from the call of PerformBenchmarkOperations
\* for phases long enough for two operations
InitRunFair ==
    \/ /\ cfg \in {[c EXCEPT !.benchmarkOps = 0] : c \in FairConfigs}
       /\ UploaderCreated
    \/ /\ cfg \in {c \in BenchConfigs : c.benchmarkOps = 2}
       /\ BenchCalled

SpecRunFair == InitRunFair /\ [][NextRun]_vars /\ WF_vars(NextRun)

\* the replication stage of main()
NextReplicate ==
    \/ MainLoadConfig
    \/ MainPrepare
    \/ SenderSends
    \/ SenderCloses
    \/ \E w \in Workers : WorkerReceives(w)
    \/ \E w \in Workers : WorkerCopies(w)
    \/ \E w \in Workers : WorkerReports(w)
    \/ \E w \in Workers : WorkerAppends(w)
    \/ \E w \in Workers : WorkerExits(w)
    \/ ReplicationReturns

\* its configurations: a valid config.json with up to MaxJobs local files
\* and up to MaxReplicas workers
ReplicaConfigs ==
    {c \in StartConfigs :
        /\ c.maxConcurrentUploads = 1 /\ c.maxConcurrentSubfolders = 1
        /\ c.maxBenchmarkThreads = 1 /\ c.numClients = 1 /\ c.maxRetries = 1
        /\ c.maxConcurrentReplicas >= 1}

InitReplicate == InitStart /\ cfg \in ReplicaConfigs

SpecReplicate == InitReplicate /\ [][NextReplicate]_vars

\* the process from the start of main() to its exit
NextStart ==
    \/ NextReplicate
    \/ MainInitClients
    \/ NextRun
    \/ MainReturns

SpecStart == InitStart /\ [][NextStart]_vars

\* the goroutines of ReplicateFilesWithReflinkInParallel: the sender, the
\* workers, and the caller in replicationWG.Wait()
NextWorkers ==
    \/ SenderSends
    \/ SenderCloses
    \/ \E w \in Workers : WorkerReceives(w)
    \/ \E w \in Workers : WorkerCopies(w)
    \/ \E w \in Workers : WorkerReports(w)
    \/ \E w \in Workers : WorkerAppends(w)
    \/ \E w \in Workers : WorkerExits(w)
    \/ ReplicationReturns

\* configurations with about as many local files as errorChan has room for
ManyJobsConfigs ==
    [totalFiles : {1}, maxFilesPerFolder : {1},
     maxConcurrentUploads : {1}, maxConcurrentSubfolders : {1},
     maxRetries : {1}, maxLocalFiles : ErrorChanCap..(ErrorChanCap + MaxLeft),
     numClients : {1}, maxBenchmarkThreads : {1}, benchmarkOps : {1},
     maxConcurrentReplicas : 1..MaxReplicas]

\* ReplicateFilesWithReflinkInParallel after failed jobs: the first worker
\* has received every job but the last left ones (1 <= left <= MaxLeft), the
\* copy of each of them timed out and its error is in errorChan; the other
\* workers have received nothing yet; the sender has sent these jobs and any
\* number of the jobs that follow, up to the capacity of the jobs channel
ManyJobsFailed ==
    /\ localFiles = <<>>
    /\ mainPc = "replicate"
    /\ NothingRun
    /\ \E left \in 1..MaxLeft, ahead \in 0..MaxLeft :
         LET failed == cfg.maxLocalFiles - left IN
         /\ failed <= ErrorChanCap
         /\ ahead <= left
         /\ ahead <= JobsChanCap
         /\ repl = [sent |-> failed + ahead,
                    closed |-> FALSE,
                    received |-> failed,
                    workers |-> [w \in 1..cfg.maxConcurrentReplicas |->
                                   [pc |-> "recv",
                                    currentCount |-> IF w = 1 THEN failed - 1 ELSE 0]],
                    replicatedFiles |-> <<>>,
                    errorChan |-> failed,
                    jobs |-> [j \in 1..cfg.maxLocalFiles |->
                                IF j <= failed
                                THEN [by |-> 1, clone |-> "timeout",
                                      fallback |-> "none", out |-> "err"]
                                ELSE [by |-> 0, clone |-> "none",
                                      fallback |-> "none", out |-> "none"]]]

InitManyJobs == cfg \in ManyJobsConfigs /\ ManyJobsFailed

\* the scheduler runs every goroutine that can take a step, and every cp
\* command returns (CopyFileReflink gives it 30 seconds)
SpecManyJobs == InitManyJobs /\ [][NextWorkers]_vars /\ WF_vars(NextWorkers)

(* ------------------------------- claims -------------------------------- *)
RECURSIVE SumSeq(_)
SumSeq(s) == IF s = <<>> THEN 0 ELSE Head(s) + SumSeq(Tail(s))

\* sum of a counter field over every file goroutine of the run
TotalOf(fld) ==
    SumSeq([b \in BatchIds |->
              SumSeq([i \in FileIds(b) |-> batches[b].files[i][fld]])])

AllFiles == UNION {{<<b, i>> : i \in FileIds(b)} : b \in BatchIds}
FileOf(x) == batches[x[1]].files[x[2]]

\* a call of UploadFileWithRetry has returned
Terminal(f) == f.pc \in {"release", "done"}

\* C1: with maxRetries = N >= 1, a call whose every attempt failed has made
\* exactly N attempts, slept N-1 times for 2^1, ..., 2^(N-1) seconds in that
\* order, recorded exactly one permanent failure and no success, returned an
\* error and appended nothing to the registry; while it is still running it
\* has slept once, for 2^k seconds, after each failed attempt k.
C1_AllAttemptsFail ==
    \A x \in AllFiles :
      LET f == FileOf(x) N == cfg.maxRetries IN
      (N >= 1) =>
        /\ f.sleeps = [k \in 1..Len(f.sleeps) |-> 2^k]
        /\ f.pc = "sleep" => Len(f.sleeps) = f.attempts /\ f.attempts < N
        /\ f.pc \in {"loop", "put"} => Len(f.sleeps) = f.attempt - 1
        /\ f.result = "err" =>
             /\ Terminal(f)
             /\ f.attempts = N
             /\ Len(f.sleeps) = N - 1
             /\ f.recF = 1 /\ f.recS = 0 /\ f.app = 0
             /\ stats.Failures >= 1

\* C1 witness: a call with maxRetries = 3 ended in a permanent failure after
\* sleeping 2 and then 4 seconds
C1_Witness ==
    \E x \in AllFiles :
      /\ cfg.maxRetries = 3
      /\ FileOf(x).result = "err"
      /\ FileOf(x).attempts = 3
      /\ FileOf(x).sleeps = <<2, 4>>
      /\ UploadedS3Files = <<>>

\* C2: with maxRetries >= 1 every call records at most one outcome, never a
\* success and a failure; a returned call is either a success (one success
\* record, one registry append) or a permanent failure (one failure record,
\* no append); the successful attempt is the call's last attempt; and
\* RunStats counts exactly one upload per recorded outcome.
C2_OneTerminalOutcome ==
    (cfg.maxRetries >= 1) =>
        /\ \A x \in AllFiles :
             LET f == FileOf(x) IN
             /\ f.recS + f.recF <= 1 /\ f.app <= f.recS
             /\ Terminal(f) =>
                  \/ f.result = "ok" /\ f.recS = 1 /\ f.recF = 0 /\ f.app = 1
                  \/ f.result = "err" /\ f.recS = 0 /\ f.recF = 1 /\ f.app = 0
             /\ f.okAt > 0 => f.attempts = f.okAt
             /\ f.recS = 1 => f.okAt > 0
        /\ stats.Successes = TotalOf("recS")
        /\ stats.Failures = TotalOf("recF")
        /\ stats.TotalUploads = stats.Successes + stats.Failures

\* C2 witness: in one run one call ended in success and another in permanent
\* failure, the successful one after a failed first attempt
C2_Witness ==
    /\ mainPc = "uploaded"
    /\ \E x, y \in AllFiles :
         /\ FileOf(x).result = "ok" /\ FileOf(x).attempts = 2
         /\ FileOf(y).result = "err"
    /\ stats.TotalUploads = cfg.totalFiles

\* C3: when all upload batches have completed, the registry length equals
\* the number of calls that ended in success, RunStats.successes and the
\* Uploader's SuccessCount; failed calls contribute no entry.
C3_RegistryCountsSuccesses ==
    (mainPc = "uploaded") =>
        /\ Len(UploadedS3Files) = Cardinality({x \in AllFiles : FileOf(x).result = "ok"})
        /\ Len(UploadedS3Files) = stats.Successes
        /\ Len(UploadedS3Files) = SuccessCount
        /\ stats.Failures = Cardinality({x \in AllFiles : FileOf(x).result = "err"
                                                          /\ cfg.maxRetries >= 1})
        /\ Cardinality(AllFiles) = cfg.totalFiles

\* C3 witness: a finished run of two batches in which one file was stored
\* and the other failed permanently
C3_Witness ==
    /\ mainPc = "uploaded"
    /\ Len(batches) = 2
    /\ cfg.maxConcurrentSubfolders = 2
    /\ Len(UploadedS3Files) = 1
    /\ stats.Failures = 1

\* C4: the registry never contains the same destination key twice.
C4_NoDuplicateKeys ==
    \A p, q \in 1..Len(UploadedS3Files) :
        p # q => UploadedS3Files[p] # UploadedS3Files[q]

\* C9: within one batch at most maxConcurrentUploads files are inside
\* UploadFileWithRetry (attempting or in backoff sleep), and UploadFiles has
\* returned only if every file of the batch reached a terminal outcome.
C9_BatchUploadsBounded ==
    \A b \in BatchIds :
        /\ Cardinality({i \in FileIds(b) :
              batches[b].files[i].pc \in
                 {"loop", "put", "sleep", "succ_stats", "succ_append", "release"}})
             <= cfg.maxConcurrentUploads
        /\ batches[b].pc \in {"release", "pause", "done"} =>
             /\ Len(batches[b].files) = batches[b].filesCount
             /\ \A i \in FileIds(b) :
                  /\ batches[b].files[i].pc = "done"
                  /\ batches[b].files[i].result \in {"ok", "err"}

\* C9 witness: in a batch of two files with maxConcurrentUploads = 1 one file
\* is in backoff sleep inside UploadFileWithRetry while the other still waits
\* for the slot
C9_Witness ==
    \E b \in BatchIds :
        /\ cfg.maxConcurrentUploads = 1
        /\ Len(batches[b].files) = 2
        /\ \E i, l \in FileIds(b) :
             /\ batches[b].files[i].pc = "sleep"
             /\ batches[b].files[l].pc = "sem"

\* C10: the number of uploads in flight, summed over all concurrently
\* running batches, is at most maxConcurrentUploads.
C10_GlobalUploadsBounded ==
    Cardinality({x \in AllFiles : FileOf(x).pc = "put"}) <= cfg.maxConcurrentUploads

\* C5: no DELETE operation has been admitted or started while the GET loop or
\* the STAT loop is still admitting tasks or has an operation in flight.
C5_DeleteAfterReadDrained ==
    (\/ loops["DELETE"].pc # "idle"
     \/ SlotsTaken("DELETE") > 0
     \/ metrics["DELETE"].TotalOperations > 0)
    => \A k \in {"GET", "STAT"} :
          /\ loops[k].pc = "returned"
          /\ loops[k].spawned = 0 /\ loops[k].op = 0 /\ loops[k].rel = 0
          /\ metrics[k].TotalOperations = loops[k].admitted

\* C5 witness: a DELETE operation is in flight after the READ phase has
\* recorded a sample
C5_Witness ==
    /\ loops["DELETE"].op > 0
    /\ metrics["GET"].TotalOperations + metrics["STAT"].TotalOperations > 0

\* C6: once the phase deadline has passed no loop admits a new operation
\* task and no operation starts, and every admitted task has recorded its
\* sample when the loop returns.
C6_NoAdmissionAfterDeadline ==
    \A k \in Kinds :
        /\ loops[k].lateAdmits = 0
        /\ loops[k].pc = "returned" => metrics[k].TotalOperations = loops[k].admitted

\* C7: for each loop the number of operations started and not yet recorded
\* is at most maxBenchmarkThreads.
C7_LoopOpsBounded ==
    \A k \in Kinds :
        /\ loops[k].op <= cfg.maxBenchmarkThreads
        /\ loops[k].spawned + loops[k].op <= cfg.maxBenchmarkThreads

\* C7 witness: a loop has maxBenchmarkThreads = 2 operations in flight and is
\* blocked sending to its full semaphore
C7_Witness ==
    \E k \in Kinds :
        /\ cfg.maxBenchmarkThreads = 2
        /\ loops[k].op = 2
        /\ loops[k].pc = "send"

\* C8: the number of in-flight benchmark operations, summed over GET, STAT
\* and DELETE, is at most maxBenchmarkThreads.
C8_TotalOpsBounded ==
    loops["GET"].op + loops["STAT"].op + loops["DELETE"].op <= cfg.maxBenchmarkThreads

\* C11: at most maxConcurrentSubfolders batches are inside processSubfolder
\* (building their file list or uploading) at the same time, however many
\* batches the run has launched.
C11_SubfoldersBounded ==
    Cardinality({b \in BatchIds : batches[b].pc \in {"process", "uploading"}})
        <= cfg.maxConcurrentSubfolders

\* C11 witness: with maxConcurrentSubfolders = 1 one batch has an upload in
\* flight while a second batch is blocked on the subfolder semaphore
C11_Witness ==
    /\ cfg.maxConcurrentSubfolders = 1
    /\ \E b, c \in BatchIds :
         /\ batches[b].pc = "uploading"
         /\ \E i \in FileIds(b) : batches[b].files[i].pc = "put"
         /\ batches[c].pc = "acquire"

\* C12: a batch that was blocked on the full subfolder semaphore is not
\* inside processSubfolder while the batch whose release made room for it
\* is still in its trailing pause.
C12_NoStartDuringPause ==
    \A c \in BatchIds :
        (batches[c].pc = "process" /\ batches[c].freedBy # 0)
            => batches[batches[c].freedBy].pc # "pause"

\* C13: whenever the benchmark engine has started (a loop exists or an
\* operation has been admitted or recorded), main is past its wg.Wait(), every
\* batch has finished its trailing pause, every file goroutine has returned
\* and the registry holds exactly the keys of the successful calls.
C13_BenchmarkAfterUploads ==
    (\/ benchPc # "idle"
     \/ \E k \in Kinds : loops[k].pc # "idle" \/ loops[k].admitted > 0
                          \/ metrics[k].TotalOperations > 0)
    => /\ mainPc \in {"bench", "report"}
       /\ totalFilesUploaded = cfg.totalFiles
       /\ \A b \in BatchIds :
            /\ batches[b].pc = "done"
            /\ Len(batches[b].files) = batches[b].filesCount
            /\ \A i \in FileIds(b) : batches[b].files[i].pc = "done"
       /\ Len(UploadedS3Files) =
            Cardinality({x \in AllFiles : FileOf(x).result = "ok"})

\* C13 witness: a GET operation is in flight after a run of two batches, one
\* of which stored its file and one of which failed
C13_Witness ==
    /\ loops["GET"].op > 0
    /\ Len(batches) = 2
    /\ Len(UploadedS3Files) = 1
    /\ stats.Failures = 1

\* C14: for every operation kind errorCount <= totalOperations, and
\* errorCount is the number of recorded operations whose S3 call returned an
\* error.
C14_ErrorCountExact ==
    \A k \in Kinds :
        /\ metrics[k].ErrorCount <= metrics[k].TotalOperations
        /\ metrics[k].ErrorCount = loops[k].errs

\* C14 witness: a kind has recorded two operations of which exactly one
\* returned an error
C14_Witness ==
    \E k \in Kinds :
        /\ metrics[k].TotalOperations = 2
        /\ metrics[k].ErrorCount = 1
        /\ loops[k].errs = 1

\* C15: for every operation kind minTime <= d <= maxTime for every recorded
\* sample d, samples of duration 0 included.
C15_MinMaxBracketSamples ==
    \A k \in Kinds : \A d \in loops[k].seen :
        metrics[k].MinTime <= d /\ d <= metrics[k].MaxTime

\* C16: no update is lost: in every state totalOperations of a kind is the
\* number of its admitted tasks that have passed the critical section and
\* totalTime the sum of their durations, and once the loop has returned (so
\* when its phase ends) totalOperations equals the number of tasks it admitted.
C16_NoLostUpdate ==
    \A k \in Kinds :
        /\ metrics[k].TotalOperations =
              loops[k].admitted - loops[k].spawned - loops[k].op
                 - (IF loops[k].pc = "send" THEN 1 ELSE 0)
        /\ metrics[k].TotalTime = loops[k].durSum
        /\ (loops[k].pc = "returned" \/ benchPc = "done"
               \/ (benchPc = "delete" /\ k # "DELETE"))
             => /\ metrics[k].TotalOperations = loops[k].admitted
                /\ SlotsTaken(k) = 0

\* C16 witness: the READ phase has ended after two GET operations that were
\* in flight at the same time, of total duration 2
C16_Witness ==
    /\ benchPc = "delete"
    /\ cfg.maxBenchmarkThreads = 2
    /\ metrics["GET"].TotalOperations = 2
    /\ metrics["GET"].TotalTime = 2
    /\ metrics["STAT"].TotalOperations = 1

\* C20: an error is counted in the errorCount of its own kind only, and a
\* loop over a non-empty registry stops admitting (waits for its tasks or has
\* returned) only when its phase's deadline has fired, whatever errors it or
\* another loop has counted; the DELETE phase starts all the same.
C20_ErrorsDoNotStopLoops ==
    /\ \A k \in Kinds :
         /\ metrics[k].ErrorCount = loops[k].errs
         /\ (loops[k].pc \in {"drain", "returned"} /\ Len(UploadedS3Files) > 0)
              => ctxDone[PhaseOf(k)]
    /\ (benchPc = "read" /\ Len(UploadedS3Files) > 0
           /\ loops["GET"].pc = "returned" /\ loops["STAT"].pc = "returned")
         => loops["DELETE"].pc = "idle" /\ ctxDone["read"]

\* C20 witness: with one thread per loop, the GET loop has a second operation
\* in flight after its first one returned an error, before the deadline
C20_Witness ==
    /\ cfg.maxBenchmarkThreads = 1
    /\ ~ctxDone["read"]
    /\ metrics["GET"].TotalOperations = 1
    /\ metrics["GET"].ErrorCount = 1
    /\ loops["GET"].admitted = 2
    /\ loops["GET"].op = 1
    /\ metrics["STAT"].ErrorCount = 0

\* C17: with totalFiles = T and maxLocalFiles = L, main launches ceil(T / L)
\* batches; every batch but the last has L files and the last has the
\* remainder T - L*floor(T/L), or L if that is 0.
C17_BatchesByMaxLocalFiles ==
    LET T == cfg.totalFiles
        L == cfg.maxLocalFiles
        n == (T + L - 1) \div L
    IN  mainPc # "loop" =>
          /\ Len(batches) = n
          /\ \A b \in 1..(n - 1) : batches[b].filesCount = L
          /\ batches[n].filesCount = IF T % L = 0 THEN L ELSE T % L

\* the uploadFile calls so far that selected client c
Uses(c) ==
    SumSeq([b \in BatchIds |->
       SumSeq([i \in FileIds(b) |->
          Cardinality({j \in 1..Len(batches[b].files[i].clients) :
                          batches[b].files[i].clients[j] = c})])])

\* the successful uploadFile calls so far that selected client c
SuccUses(c) ==
    Cardinality({x \in AllFiles :
        FileOf(x).okAt > 0 /\ FileOf(x).clients[FileOf(x).okAt] = c})

\* n items are spread evenly over e clients when a client has count k
Balanced(k, n, e) == k = n \div e \/ k = (n + e - 1) \div e

\* C18: of the U upload attempts that succeeded so far, each of the E
\* clients was the one used by floor(U/E) or ceil(U/E).
C18_SuccessesBalanced ==
    LET U == Cardinality({x \in AllFiles : FileOf(x).okAt > 0}) IN
    \A c \in 0..(cfg.numClients - 1) : Balanced(SuccUses(c), U, cfg.numClients)

\* C18, amended: of the A uploadFile calls made so far, successful or not,
\* each of the E clients was selected by floor(A/E) or ceil(A/E); A is the
\* value of the Uploader's ClientIndex.
C18_AttemptsBalanced ==
    /\ ClientIndex = TotalOf("attempts")
    /\ \A c \in 0..(cfg.numClients - 1) : Balanced(Uses(c), ClientIndex, cfg.numClients)

\* C18 witness: with two clients, three uploadFile calls were made; the two
\* that succeeded both used client 1, the failed one in between used client 0
C18_Witness ==
    /\ cfg.numClients = 2
    /\ ClientIndex = 3
    /\ SuccUses(1) = 2
    /\ SuccUses(0) = 0
    /\ Uses(0) = 1

\* C19: with maxRetries >= 1 and maxConcurrentUploads >= 1, if every step
\* that can be taken is eventually taken, the run reaches the call of
\* PerformBenchmarkOperations with every file of every batch at a terminal
\* outcome, however many files failed permanently.
C19_RunReachesBenchmark ==
    (cfg.maxRetries >= 1 /\ cfg.maxConcurrentUploads >= 1)
    => <>(/\ mainPc = "bench"
          /\ Cardinality(AllFiles) = cfg.totalFiles
          /\ \A x \in AllFiles :
               FileOf(x).pc = "done" /\ FileOf(x).result \in {"ok", "err"})

\* C19 witness: in a batch with maxConcurrentUploads = 1 one file has failed
\* permanently and returned, and another file of the batch has its upload in
\* flight
C19_Witness ==
    \E b \in BatchIds : \E i, l \in FileIds(b) :
        /\ cfg.maxRetries >= 1
        /\ cfg.maxConcurrentUploads = 1
        /\ batches[b].files[i].result = "err"
        /\ batches[b].files[i].pc = "done"
        /\ batches[b].files[l].pc = "put"

\* C21: with an empty registry a loop that has started returns without
\* admitting or starting any operation and leaves its PerformanceMetrics at
\* all zeros, and PerformBenchmarkOperations always has a next step that does
\* not wait for a deadline, until it has returned its result.
C21_EmptyRegistryNoOps ==
    (Len(UploadedS3Files) = 0) =>
        /\ \A k \in Kinds :
             /\ loops[k].pc \in {"idle", "start", "returned"}
             /\ loops[k].admitted = 0
             /\ WgCount(k) = 0
             /\ metrics[k] = ZeroMetrics
        /\ (mainPc = "bench" /\ benchPc # "done") =>
             ENABLED (\/ BenchStart
                      \/ \E k \in Kinds : LoopEnter(k)
                      \/ ReadPhaseEnds
                      \/ BenchEnds)

\* C21 witness: with an empty registry PerformBenchmarkOperations has run
\* both phases and returned before either deadline fired
C21_Witness ==
    /\ Len(UploadedS3Files) = 0
    /\ benchPc = "done"
    /\ ~ctxDone["read"] /\ ~ctxDone["delete"]
    /\ \A k \in Kinds : loops[k].pc = "returned" /\ metrics[k] = ZeroMetrics

\* C22: for every replication job the fallback copy has been attempted when
\* the clone failed and when the clone timed out, and the job has failed only
\* if the fallback copy failed.
C22_FallbackOnFailureAndTimeout ==
    \A j \in 1..Len(repl.jobs) :
        /\ repl.jobs[j].clone \in {"failed", "timeout"} => repl.jobs[j].fallback # "none"
        /\ repl.jobs[j].out = "err" => repl.jobs[j].fallback = "failed"

C24_ReplicationErrorsNotFatal ==
    /\ mainPc # "crashed"
    /\ exitStatus \in {-1, 0, 1}

\* C25: a process ended by a configuration failure or by a client
\* initialization failure (no endpoint client created) has a non-zero exit
\* status and every process ended otherwise has status zero; after a
\* configuration failure nothing was replicated, uploaded or measured, and
\* after a client initialization failure nothing was uploaded or measured.
C25_ExitStatus ==
    /\ mainPc \in {"configError", "clientError"} => exitStatus \notin {-1, 0}
    /\ (exitStatus # -1 /\ mainPc \notin {"configError", "clientError"}) => exitStatus = 0
    /\ (mainPc = "configError") => repl = IdleRepl /\ localFiles = <<>>
    /\ mainPc \in {"configError", "clientError"} =>
         /\ batches = <<>> /\ ClientIndex = 0 /\ UploadedS3Files = <<>>
         /\ benchPc = "idle" /\ \A k \in Kinds : metrics[k] = ZeroMetrics

\* C26: with a concurrency setting that is not positive (maxConcurrentReplicas,
\* maxConcurrentUploads, maxConcurrentSubfolders or maxBenchmarkThreads) main
\* gets no further than loading the configuration: it ends with the
\* configuration error and nothing is replicated, uploaded or measured.
C26_InvalidConcurrencyRejected ==
    (\/ cfg.maxConcurrentReplicas <= 0
     \/ cfg.maxConcurrentUploads <= 0
     \/ cfg.maxConcurrentSubfolders <= 0
     \/ cfg.maxBenchmarkThreads <= 0)
    => /\ mainPc \in {"start", "configError"}
       /\ repl = IdleRepl /\ localFiles = <<>>
       /\ batches = <<>> /\ benchPc = "idle"

\* the metrics as GenerateFinalReport found them, the kinds' values summed
SumOverKinds(fld) ==
    metrics["GET"][fld] + metrics["STAT"][fld] + metrics["DELETE"][fld]

\* C27: in the printed report every kind's avgTime is the integer quotient
\* of totalTime by totalOperations (0 when totalOperations = 0) and its
\* successes are totalOperations - errorCount, never negative; the overall
\* totals are the sums over GET, STAT and DELETE; and printing the report
\* leaves the metrics as they were.
C27_ReportDerivation ==
    /\ [](mainPc = "report" =>
           /\ DOMAIN report.blocks = Kinds
           /\ \A k \in Kinds :
                LET blk == report.blocks[k]
                    n == metrics[k].TotalOperations
                IN /\ n = 0 => blk.AvgTime = 0
                   /\ n > 0 => /\ blk.AvgTime * n <= metrics[k].TotalTime
                                /\ metrics[k].TotalTime < (blk.AvgTime + 1) * n
                   /\ blk.Successes + metrics[k].ErrorCount = n
                   /\ blk.Successes >= 0
                   /\ blk.Successes = loops[k].admitted - loops[k].errs
                   /\ blk.TotalOperations = n /\ blk.Errors = metrics[k].ErrorCount
           /\ report.totalOperations = SumOverKinds("TotalOperations")
           /\ report.totalErrors = SumOverKinds("ErrorCount"))
    /\ [][mainPc' = "report" => metrics' = metrics]_vars

\* C27 witness: a report of two GET operations of total duration 1, one of
\* them failed, one DELETE operation and no STAT operation
C27_Witness ==
    /\ mainPc = "report"
    /\ metrics["GET"].TotalOperations = 2
    /\ metrics["GET"].TotalTime = 1
    /\ metrics["GET"].ErrorCount = 1
    /\ report.blocks["GET"].AvgTime = 0
    /\ report.blocks["GET"].Successes = 1
    /\ metrics["STAT"].TotalOperations = 0
    /\ report.totalOperations = 3

C29_RegistryNeverPruned ==
    /\ [][UploadedS3Files' = UploadedS3Files]_vars
    /\ [](\A key \in deleted : \E q \in 1..Len(UploadedS3Files) : UploadedS3Files[q] = key)
    /\ [](metrics["DELETE"].ErrorCount >= loops["DELETE"].goneErrs)
    /\ [][loops'["DELETE"].goneErrs # loops["DELETE"].goneErrs =>
            /\ loops'["DELETE"].goneErrs = loops["DELETE"].goneErrs + 1
            /\ metrics'["DELETE"].TotalOperations = metrics["DELETE"].TotalOperations + 1
            /\ metrics'["DELETE"].ErrorCount = metrics["DELETE"].ErrorCount + 1
            /\ deleted' = deleted
            /\ loops'["DELETE"].pc = loops["DELETE"].pc
            /\ loops'["DELETE"].admitted = loops["DELETE"].admitted]_vars

\* C29 witness: with one thread, the DELETE loop deleted the registry's only
\* key, selected it again and recorded the error the store answered with
C29_Witness ==
    /\ cfg.maxBenchmarkThreads = 1
    /\ Len(UploadedS3Files) = 1
    /\ deleted = {UploadedS3Files[1]}
    /\ loops["DELETE"].goneErrs = 1
    /\ metrics["DELETE"].TotalOperations = 2
    /\ metrics["DELETE"].ErrorCount = 1

\* the counter values in 1..n that select client c
ValuesFor(c, n) == Cardinality({v \in 1..n : v % cfg.numClients = c})

\* C30: every uploadFile call, of a first attempt or of a retry, successful
\* or not, adds exactly one to the shared counter and uses the client (new
\* counter value mod E): a step that changes the counter adds one to it and
\* is the start of one attempt of one file, with that client; so the last A
\* attempts, for every A up to the number made, used each client floor(A/E)
\* or ceil(A/E) times, and no counter value was obtained by two attempts.
C30_SelectionPerAttempt ==
    /\ [](ClientIndex = TotalOf("attempts"))
    /\ [](\A c \in 0..(cfg.numClients - 1) :
            /\ Uses(c) = ValuesFor(c, ClientIndex)
            /\ \A n \in 0..ClientIndex :
                 Balanced(Uses(c) - ValuesFor(c, n), ClientIndex - n, cfg.numClients))
    /\ [][ClientIndex' # ClientIndex =>
            /\ ClientIndex' = ClientIndex + 1
            /\ \E x \in AllFiles :
                 /\ batches'[x[1]].files[x[2]].clients =
                       Append(FileOf(x).clients, ClientIndex' % cfg.numClients)
                 /\ \A y \in AllFiles \ {x} :
                       batches'[y[1]].files[y[2]].clients = FileOf(y).clients]_vars

\* C30 witness: with two clients, a file's first attempt used client 1 and
\* failed, and its second attempt is in flight with client 0 while another
\* file's attempt is in flight too
C30_Witness ==
    /\ cfg.numClients = 2
    /\ \E x, y \in AllFiles :
         /\ x # y
         /\ FileOf(x).clients = <<1, 0>>
         /\ FileOf(x).pc = "put"
         /\ FileOf(y).pc = "put"

\* the files main has handed to the batches it launched
FilesLaunched == SumSeq([b \in BatchIds |-> batches[b].filesCount])

\* C31: every batch main launches has between 1 and maxFilesPerFolder files
\* and the batch index (position in launch order) minus one as its folder
\* index, so the indices are 0, 1, 2, ... without gaps or repeats; the sizes
\* add up to totalFilesUploaded, which is exactly totalFiles once the loop is
\* left; a batch that runs issues one upload task per file of its size, so a
\* finished upload stage has issued exactly totalFiles tasks.
C31_BatchesCoverTotal ==
    /\ folderIndex = Len(batches)
    /\ \A b \in BatchIds :
         /\ batches[b].folderIdx = b - 1
         /\ batches[b].filesCount >= 1
         /\ batches[b].filesCount <= cfg.maxFilesPerFolder
         /\ batches[b].pc \in {"uploading", "release", "pause", "done"} =>
                Len(batches[b].files) = batches[b].filesCount
    /\ FilesLaunched = totalFilesUploaded
    /\ totalFilesUploaded <= cfg.totalFiles
    /\ mainPc \in {"wait", "uploaded"} => FilesLaunched = cfg.totalFiles
    /\ mainPc = "uploaded" => Cardinality(AllFiles) = cfg.totalFiles

\* C31 witness: totalFiles divides into more than one batch and the stage
\* has finished
C31_Witness ==
    /\ mainPc = "uploaded"
    /\ cfg.totalFiles = MaxTotalFiles
    /\ cfg.maxFilesPerFolder < cfg.totalFiles
    /\ Len(batches) >= 2
    /\ Cardinality(AllFiles) = cfg.totalFiles

\* C32: once cleanupLocalFiles has removed a local file every batch
\* goroutine and every file goroutine has ended, so no upload attempt is in
\* flight, sleeping before a retry or still to be made; no step that starts
\* an attempt (takes the next endpoint counter value) is taken with a file
\* removed, and every local file is still on disk until main's wg.Wait()
\* has returned.
C32_CleanupAfterUploads ==
    /\ [](removed # {} =>
            /\ mainPc \notin {"loop", "wait"}
            /\ totalFilesUploaded >= cfg.totalFiles
            /\ \A b \in BatchIds : batches[b].pc = "done"
            /\ \A x \in AllFiles : FileOf(x).pc = "done")
    /\ [][ClientIndex' # ClientIndex => removed = {} /\ removed' = {}]_vars
    /\ [][removed' # removed =>
            /\ mainPc = "uploaded"
            /\ \A x \in AllFiles : FileOf(x).pc = "done" /\ FileOf(x)' = FileOf(x)]_vars

\* C32 witness: the local file was removed after a run in which an upload
\* was retried after its backoff sleep
C32_Witness ==
    /\ removed = DOMAIN localFiles
    /\ mainPc = "bench"
    /\ \E x \in AllFiles : FileOf(x).attempts = 2 /\ FileOf(x).sleeps = <<2>>

\* s is t or t with entries appended
IsPrefix(s, t) == Len(s) <= Len(t) /\ SubSeq(t, 1, Len(s)) = s

\* C33: every step leaves the registry a prefix of its next value and
\* decreases none of RunStats' totalUploads, successes and failures, the
\* Uploader's SuccessCount, and each PerformanceMetrics' TotalOperations,
\* TotalTime, MaxTime and ErrorCount.
C33_SharedStateOnlyGrows ==
    [][/\ IsPrefix(UploadedS3Files, UploadedS3Files')
       /\ stats'.TotalUploads >= stats.TotalUploads
       /\ stats'.Successes >= stats.Successes
       /\ stats'.Failures >= stats.Failures
       /\ SuccessCount' >= SuccessCount
       /\ \A k \in Kinds :
            /\ metrics'[k].TotalOperations >= metrics[k].TotalOperations
            /\ metrics'[k].TotalTime >= metrics[k].TotalTime
            /\ metrics'[k].MaxTime >= metrics[k].MaxTime
            /\ metrics'[k].ErrorCount >= metrics[k].ErrorCount]_vars

\* C33 witness: after an upload stage that stored its file (one registry
\* entry, one success), a benchmark loop has recorded samples of duration 0
\* and 1, one of them failed
C33_Witness ==
    /\ Len(UploadedS3Files) = 1
    /\ stats.Successes = 1
    /\ SuccessCount = 1
    /\ \E k \in Kinds :
         /\ loops[k].seen = {0, 1}
         /\ metrics[k].TotalOperations = 2
         /\ metrics[k].TotalTime = 1
         /\ metrics[k].MaxTime = 1
         /\ metrics[k].ErrorCount = 1

\* C34: with maxRetries <= 0 no call of UploadFileWithRetry makes an upload
\* attempt or advances the endpoint counter, every call that has returned
\* returned an error, and RunStats, the registry and SuccessCount stay as
\* they were created; when the upload stage is over totalFiles calls were
\* made and RunStats.totalUploads is 0.
C34_NoRetriesNoAttempt ==
    (cfg.maxRetries <= 0) =>
        /\ ClientIndex = 0
        /\ SuccessCount = 0
        /\ UploadedS3Files = <<>>
        /\ stats = [TotalUploads |-> 0, Successes |-> 0, Failures |-> 0]
        /\ \A x \in AllFiles :
             /\ FileOf(x).attempts = 0
             /\ FileOf(x).pc \in {"sem", "loop", "release", "done"}
             /\ Terminal(FileOf(x)) => FileOf(x).result = "err"
        /\ mainPc = "uploaded" =>
             /\ Cardinality(AllFiles) = cfg.totalFiles
             /\ \A x \in AllFiles : FileOf(x).result = "err"
             /\ stats.TotalUploads = 0

\* C34 witness: a finished upload stage of MaxTotalFiles files with a
\* negative maxRetries
C34_Witness ==
    /\ cfg.maxRetries < 0
    /\ cfg.totalFiles = MaxTotalFiles
    /\ mainPc = "uploaded"
    /\ \A x \in AllFiles : FileOf(x).result = "err"
    /\ Cardinality(AllFiles) = MaxTotalFiles
    /\ stats.TotalUploads = 0

\* the calls of UploadFileWithRetry that are at position p
CallsAt(p) == Cardinality({x \in AllFiles : FileOf(x).pc = p})

\* C35: a successful attempt increments SuccessCount, then reports the
\* success to the monitor, then appends to the registry: SuccessCount is
\* ahead of RunStats.successes by the calls between the increment and the
\* report, and RunStats.successes is ahead of the registry length by the
\* calls between the report and the append; so registry length <=
\* successes <= SuccessCount in every state, with equality when no call is
\* between its successful PUT and its return.
C35_SuccessSideEffectOrder ==
    /\ SuccessCount = stats.Successes + CallsAt("succ_stats")
    /\ stats.Successes = Len(UploadedS3Files) + CallsAt("succ_append")
    /\ Len(UploadedS3Files) <= stats.Successes
    /\ stats.Successes <= SuccessCount
    /\ (CallsAt("succ_stats") = 0 /\ CallsAt("succ_append") = 0) =>
          /\ Len(UploadedS3Files) = stats.Successes
          /\ stats.Successes = SuccessCount

\* C35 witness: one call has reported its success and not yet appended,
\* another has incremented SuccessCount and not yet reported
C35_Witness ==
    /\ CallsAt("succ_stats") = 1
    /\ CallsAt("succ_append") = 1
    /\ SuccessCount = 2
    /\ stats.Successes = 1
    /\ Len(UploadedS3Files) = 0

\* C36: every copy of the statistics that GetStats or ToJSON returned has
\* totalUploads = successes + failures and counts exactly the UpdateStats
\* calls that had returned when it was taken; the same holds of stats
\* itself whenever statsLock is free or held by a reader, with successes
\* the returned calls that reported a success.
C36_StatsConsistent ==
    /\ mon.copy.TotalUploads = mon.copy.Successes + mon.copy.Failures
    /\ mon.copy.TotalUploads = mon.copied
    /\ mon.lock \in {0, Reader} =>
          /\ stats.TotalUploads = stats.Successes + stats.Failures
          /\ stats.TotalUploads = Cardinality(CallsReturned)
          /\ stats.Successes = Cardinality({c \in CallsReturned : mon.calls[c].success})

\* C36 witness: a reader copied the statistics after MaxCalls calls, a
\* success and a failure among them, had returned
C36_Witness ==
    /\ mon.copied = MaxCalls
    /\ mon.copy.TotalUploads = MaxCalls
    /\ mon.copy.Successes >= 1
    /\ mon.copy.Failures >= 1
    /\ mon.lock = 0

\* no goroutine of the upload stage holds a semaphore slot
UploadSlotsFree ==
    /\ HoldingSubfolderSlot = {}
    /\ \A b \in BatchIds : HoldingUploadSlot(b) = {}

\* C37: with every limit at least 1 and a local file, under fair scheduling
\* the run reaches the final report with every benchmark loop returned, no
\* task in flight and every semaphore slot free; a loop never has more than
\* maxBenchmarkThreads tasks in flight; a loop that has returned has no task
\* left; and no slot of subfolderSemaphore or of a batch's semaphore is held
\* once the upload stage is over.
C37_RunTerminates ==
    /\ <>(/\ mainPc = "report"
          /\ benchPc = "done"
          /\ UploadSlotsFree
          /\ \A k \in Kinds : loops[k].pc = "returned" /\ WgCount(k) = 0)
    /\ [](\A k \in Kinds :
            /\ SlotsTaken(k) <= cfg.maxBenchmarkThreads
            /\ loops[k].pc = "returned" => WgCount(k) = 0 /\ SlotsTaken(k) = 0)
    /\ [](mainPc \in {"uploaded", "bench", "report"} => UploadSlotsFree)

\* C37 witness: the phase deadline has fired while a loop is blocked on its
\* full semaphore, with maxBenchmarkThreads tasks in flight
C37_Witness ==
    \E k \in Kinds :
        /\ loops[k].pc = "send"
        /\ ctxDone[PhaseOf(k)]
        /\ SlotsTaken(k) = cfg.maxBenchmarkThreads
        /\ loops[k].op = cfg.maxBenchmarkThreads

\* C38: ReplicateFilesWithReflinkInParallel returns to main whatever the
\* number of local files, of workers and of failing jobs, more failures than
\* errorChan holds included: the sender closes the jobs channel, and again
\* and again no worker is waiting to send an error.
C38_ReplicationTerminates ==
    /\ <>(mainPc = "clients")
    /\ <>repl.closed
    /\ []<>(\A w \in Workers : repl.workers[w].pc # "report")

\* C39: each benchmark loop creates at most one task after its phase deadline
\* has fired, and that task is the one the loop was already admitting (it
\* had taken the default branch and was at semaphore <- struct{}{}); a loop
\* that finds the deadline fired at its select admits nothing and goes to
\* wg.Wait(), a loop is in wg.Wait() or has returned only after its deadline,
\* and it returns from wg.Wait() only when none of its tasks is left.
C39_OneLateAdmission ==
    /\ [](\A k \in Kinds :
            /\ loops[k].lateAdmits <= 1
            /\ loops[k].pc \in {"drain", "returned"} /\ Len(UploadedS3Files) > 0
                  => ctxDone[PhaseOf(k)]
            /\ loops[k].pc = "returned" => WgCount(k) = 0)
    /\ [][\A k \in Kinds :
            /\ loops'[k].lateAdmits # loops[k].lateAdmits
                  => /\ loops[k].pc = "send" /\ loops'[k].pc = "select"
                     /\ loops[k].lateAdmits = 0
            /\ ctxDone[PhaseOf(k)] /\ loops[k].pc = "select"
                  => /\ loops'[k].admitted = loops[k].admitted
                     /\ loops'[k].pc \in {"select", "drain"}
            /\ loops[k].pc = "drain"
                  => /\ loops'[k].admitted = loops[k].admitted
                     /\ loops'[k].pc \in {"drain", "returned"}
                     /\ loops'[k].pc = "returned" => WgCount(k) = 0]_vars

\* C39 witness: a loop has returned after it created its second task after
\* the deadline, and both tasks have recorded their samples
C39_Witness ==
    \E k \in Kinds :
        /\ loops[k].pc = "returned"
        /\ loops[k].lateAdmits = 1
        /\ loops[k].admitted = 2
        /\ metrics[k].TotalOperations = 2

====
